---- MODULE Spec2Model ----
(***************************************************************************)
(* Model of the Atlassian Status Page Prometheus exporter:                 *)
(*   src/src/atlassian-statuspage-prom-exporter/service_checker.py         *)
(*   src/src/atlassian-statuspage-prom-exporter/service_monitor.py         *)
(*   src/src/atlassian-statuspage-prom-exporter/cache_manager.py           *)
(*                                                                         *)
(* Python values are represented as follows.                               *)
(*   - dict            : a record; d.get(k, default) is Get(d, k, default) *)
(*   - list            : a sequence                                        *)
(*   - str that is only compared (ids, impacts, statuses): a TLA+ string   *)
(*   - str that is sliced, joined or pattern-matched (names, timestamps,   *)
(*     shortlinks, urls): a sequence of one-character strings ("text")     *)
(*   - None            : NoneValue where a dict is expected, StatusNone    *)
(*                       in the integer field 'status'                     *)
(***************************************************************************)
EXTENDS Integers, Sequences, FiniteSets, TLC

\* ------------------------------------------------------------------------
\* Python primitives
\* ------------------------------------------------------------------------

\* None returned by load_service_response / stored in previous_caches
NoneValue == [py_none |-> TRUE]

\* 'status': None of a failed check (an integer no status mapping yields)
StatusNone == -99

\* dict.get(key, default)
Get(d, key, default) == IF key \in DOMAIN d THEN d[key] ELSE default

\* s[:n]
Take(s, n) == IF Len(s) <= n THEN s ELSE SubSeq(s, 1, n)

\* the set {f(x) for x in seq}
Range(seq) == {seq[i] : i \in DOMAIN seq}

\* sep.join(parts) for a list of texts
RECURSIVE Join(_, _)
Join(sep, parts) ==
    IF parts = <<>> THEN <<>>
    ELSE IF Len(parts) = 1 THEN parts[1]
    ELSE parts[1] \o sep \o Join(sep, Tail(parts))

\* text.startswith(prefix)
StartsWith(text, prefix) ==
    /\ Len(text) >= Len(prefix)
    /\ SubSeq(text, 1, Len(prefix)) = prefix

\* str.lower() on the strings the status page API uses
Lower(s) ==
    CASE s = "Resolved"    -> "resolved"
      [] s = "Operational" -> "operational"
      [] s = "Critical"    -> "critical"
      [] OTHER             -> s

\* literal texts of the source
TxtNA == <<"N", "/", "A">>
TxtUnknown == <<"u", "n", "k", "n", "o", "w", "n">>
TxtUnknownCap == <<"U", "n", "k", "n", "o", "w", "n">>
TxtCommaSpace == <<",", " ">>
TxtTestMarker ==
    <<"_", "s", "y", "s", "t", "e", "m", "_", "m", "e", "t", "a", "d", "a", "t", "a", ":">>
TxtNoActiveIncidents ==
    <<"N", "o", " ", "A", "c", "t", "i", "v", "e", " ",
      "I", "n", "c", "i", "d", "e", "n", "t", "s">>
TxtNoActiveMaintenance ==
    <<"N", "o", " ", "A", "c", "t", "i", "v", "e", " ",
      "M", "a", "i", "n", "t", "e", "n", "a", "n", "c", "e">>

NameLimit == 100
AffectedLimit == 150

\* ------------------------------------------------------------------------
\* service_monitor.normalize_timestamp
\* ------------------------------------------------------------------------

Digits == {"0", "1", "2", "3", "4", "5", "6", "7", "8", "9"}

\* re.sub(r'\.\d{3}(?=[Z\+\-])', '', s): left-to-right, non-overlapping
RECURSIVE StripMillis(_)
StripMillis(s) ==
    IF s = <<>> THEN <<>>
    ELSE IF /\ Len(s) >= 5
            /\ s[1] = "."
            /\ s[2] \in Digits /\ s[3] \in Digits /\ s[4] \in Digits
            /\ s[5] \in {"Z", "+", "-"}
         THEN StripMillis(SubSeq(s, 5, Len(s)))
         ELSE <<s[1]>> \o StripMillis(Tail(s))

normalize_timestamp(timestamp_str) ==
    IF timestamp_str = <<>> \/ timestamp_str = TxtNA \/ timestamp_str = TxtUnknown
    THEN timestamp_str
    ELSE StripMillis(timestamp_str)

\* ------------------------------------------------------------------------
\* service_checker.check_status_page_service: parsing of a fetched page
\* ------------------------------------------------------------------------

TxtUnnamedIncident ==
    <<"U", "n", "n", "a", "m", "e", "d", " ", "i", "n", "c", "i", "d", "e", "n", "t">>
TxtUnnamedMaintenance ==
    <<"U", "n", "n", "a", "m", "e", "d", " ", "m", "a", "i", "n", "t", "e", "n", "a", "n", "c", "e">>
TxtNoDescription ==
    <<"N", "o", " ", "d", "e", "s", "c", "r", "i", "p", "t", "i", "o", "n", " ",
      "a", "v", "a", "i", "l", "a", "b", "l", "e">>
TxtAffects == <<" ", "(", "a", "f", "f", "e", "c", "t", "s", ":", " ">>
TxtCloseParen == <<")">>
TxtDash == <<" ", "-", " ">>
TxtSemicolon == <<";", " ">>
TxtNonOperational ==
    <<"N", "o", "n", "-", "o", "p", "e", "r", "a", "t", "i", "o", "n", "a", "l", " ",
      "c", "o", "m", "p", "o", "n", "e", "n", "t", "s", ":", " ">>
TxtIncidentsPath == <<"/", "i", "n", "c", "i", "d", "e", "n", "t", "s", "/">>
TxtSummaryPath ==
    <<"/", "a", "p", "i", "/", "v", "2", "/", "s", "u", "m", "m", "a", "r", "y", ".", "j", "s", "o", "n">>

\* component status -> numeric value (service_checker.py:174-179)
ComponentStatusValue(component_status) ==
    IF component_status = "operational" THEN 1
    ELSE IF component_status \in {"degraded_performance", "partial_outage", "major_outage"}
         THEN 0
         ELSE 0

ComponentMetadata(components) ==
    [i \in DOMAIN components |->
        LET comp == components[i]
            component_status == Lower(Get(comp, "status", "unknown"))
        IN  [name |-> Get(comp, "name", TxtUnknownCap),
             status |-> component_status,
             status_value |-> ComponentStatusValue(component_status)]]

NonOperationalComponents(components) ==
    LET NonOp(c) == Lower(Get(c, "status", "")) # "operational"
    IN  SelectSeq(components, NonOp)

terminal_statuses == {"resolved", "completed", "postmortem"}
maintenance_terminal_statuses == {"completed", "cancelled"}

\* a variant of lines 193-198 that does not look at resolved_at
ActiveIncidents_IgnoringResolvedAt(all_incidents) ==
    LET Active(inc) == Lower(Get(inc, "status", "")) \notin terminal_statuses
    IN  SelectSeq(all_incidents, Active)

\* lines 193-198
ActiveIncidents(all_incidents) ==
    LET Active(inc) == /\ Lower(Get(inc, "status", "")) \notin terminal_statuses
                       /\ Get(inc, "resolved_at", <<>>) = <<>>
    IN  SelectSeq(all_incidents, Active)

ActiveMaintenances(scheduled_maintenances) ==
    LET Active(maint) == /\ Lower(Get(maint, "status", "")) \notin maintenance_terminal_statuses
                         /\ Get(maint, "resolved_at", <<>>) = <<>>
    IN  SelectSeq(scheduled_maintenances, Active)

\* keep the first record of every id (service_checker.py:221-229, 337-345)
RECURSIVE DedupFrom(_, _)
DedupFrom(records, seen) ==
    IF records = <<>> THEN <<>>
    ELSE LET id == Get(Head(records), "id", "unknown")
         IN  IF id \notin seen
             THEN <<Head(records)>> \o DedupFrom(Tail(records), seen \cup {id})
             ELSE DedupFrom(Tail(records), seen)

\* a variant of lines 221-229 and 337-345 that keeps the last record of every id
Deduplicate_KeepingLast(records) ==
    LET Reversed(seq) == [i \in 1..Len(seq) |-> seq[Len(seq) - i + 1]]
    IN  Reversed(DedupFrom(Reversed(records), {}))

\* lines 221-229 and 337-345
Deduplicate(records) == DedupFrom(records, {})

\* service_url.replace('/api/v2/summary.json', '').rstrip('/')
RECURSIVE RemoveAll(_, _)
RemoveAll(text, pat) ==
    IF text = <<>> THEN <<>>
    ELSE IF StartsWith(text, pat)
         THEN RemoveAll(SubSeq(text, Len(pat) + 1, Len(text)), pat)
         ELSE <<Head(text)>> \o RemoveAll(Tail(text), pat)

RECURSIVE RStripSlash(_)
RStripSlash(text) ==
    IF text # <<>> /\ text[Len(text)] = "/"
    THEN RStripSlash(SubSeq(text, 1, Len(text) - 1))
    ELSE text

BaseUrl(service_config) ==
    LET service_url == Get(service_config, "url", <<>>)
    IN  IF service_url # <<>> THEN RStripSlash(RemoveAll(service_url, TxtSummaryPath)) ELSE <<>>

AffectedComps(rec) ==
    LET comps == Get(rec, "components", <<>>)
    IN  [i \in DOMAIN comps |-> Get(comps[i], "name", <<>>)]

\* shortlink of an incident, constructed from the base url when missing
IncidentShortlink(inc, base_url) ==
    LET incident_id == Get(inc, "id", "unknown")
        shortlink == Get(inc, "shortlink", <<>>)
    IN  IF shortlink = <<>> /\ base_url # <<>> /\ incident_id # "unknown"
        THEN base_url \o TxtIncidentsPath \o <<incident_id>>
        ELSE shortlink

IsTestIncident(inc) == StartsWith(Get(inc, "name", TxtUnnamedIncident), TxtTestMarker)

IncidentRecord(inc, base_url) ==
    LET started == Get(inc, "started_at", <<>>)
    IN  [id |-> Get(inc, "id", "unknown"),
         name |-> Get(inc, "name", TxtUnnamedIncident),
         status |-> Get(inc, "status", "unknown"),
         impact |-> Get(inc, "impact", "unknown"),
         started_at |-> IF started # <<>> THEN started ELSE Get(inc, "created_at", <<>>),
         updated_at |-> Get(inc, "updated_at", <<>>),
         shortlink |-> IncidentShortlink(inc, base_url),
         affected_components |-> AffectedComps(inc)]

\* incident_metadata built from the deduplicated active incidents (lines 239-272)
RECURSIVE IncidentMetadata(_, _)
IncidentMetadata(unique_incidents, base_url) ==
    IF unique_incidents = <<>> THEN <<>>
    ELSE IF IsTestIncident(Head(unique_incidents))
         THEN IncidentMetadata(Tail(unique_incidents), base_url)
         ELSE <<IncidentRecord(Head(unique_incidents), base_url)>>
              \o IncidentMetadata(Tail(unique_incidents), base_url)

\* human-readable detail of one incident (lines 280-288)
IncidentDetail(meta) ==
    LET d1 == IF meta.affected_components # <<>>
              THEN meta.name \o TxtAffects
                   \o Join(TxtCommaSpace, meta.affected_components) \o TxtCloseParen
              ELSE meta.name
    IN  IF meta.shortlink # <<>> THEN d1 \o TxtDash \o meta.shortlink ELSE d1

IncidentsDescription(incident_metadata) ==
    Join(TxtSemicolon, [i \in DOMAIN incident_metadata |-> IncidentDetail(incident_metadata[i])])

\* a variant of lines 297-302 that ranks major above critical
severity_priority_MajorFirst(impact) ==
    CASE impact = "critical" -> 2
      [] impact = "major"    -> 3
      [] impact = "minor"    -> 1
      [] impact = "none"     -> 0
      [] OTHER               -> 0

\* lines 297-302 and 313
severity_priority(impact) ==
    CASE impact = "critical" -> 3
      [] impact = "major"    -> 2
      [] impact = "minor"    -> 1
      [] impact = "none"     -> 0
      [] OTHER               -> 0

\* the loop of lines 304-317, carried as [severity, priority]
RECURSIVE HighestFrom(_, _)
HighestFrom(active_incidents, best) ==
    IF active_incidents = <<>> THEN best
    ELSE LET inc == Head(active_incidents)
             inc_impact == Lower(Get(inc, "impact", "none"))
             inc_priority == severity_priority(inc_impact)
         IN  IF IsTestIncident(inc)
             THEN HighestFrom(Tail(active_incidents), best)
             ELSE IF inc_priority > best.priority
                  THEN HighestFrom(Tail(active_incidents),
                                   [severity |-> inc_impact, priority |-> inc_priority])
                  ELSE HighestFrom(Tail(active_incidents), best)

HighestSeverity(active_incidents) ==
    HighestFrom(active_incidents, [severity |-> "none", priority |-> 0]).severity

MaintenanceRecord(maint) ==
    LET scheduled_for == Get(maint, "scheduled_for", <<>>)
        scheduled_until == Get(maint, "scheduled_until", <<>>)
    IN  [id |-> Get(maint, "id", "unknown"),
         name |-> Get(maint, "name", TxtUnnamedMaintenance),
         status |-> Get(maint, "status", "unknown"),
         scheduled_start |-> IF scheduled_for # <<>> THEN scheduled_for
                             ELSE Get(maint, "created_at", <<>>),
         scheduled_end |-> IF scheduled_until # <<>> THEN scheduled_until
                           ELSE Get(maint, "scheduled_for", <<>>),
         shortlink |-> Get(maint, "shortlink", <<>>),
         affected_components |-> AffectedComps(maint)]

MaintenanceMetadata(active_maintenances) ==
    LET unique_maintenances == Deduplicate(active_maintenances)
    IN  [i \in DOMAIN unique_maintenances |-> MaintenanceRecord(unique_maintenances[i])]

\* indicator after the incident-severity override and the component fallback
DerivedIndicator(data) ==
    LET status == Get(data, "status", [unset |-> TRUE])
        indicator0 == Get(status, "indicator", "unknown")
        components == Get(data, "components", <<>>)
        active_incidents == ActiveIncidents(Get(data, "incidents", <<>>))
        highest_severity == HighestSeverity(active_incidents)
        indicator1 == IF active_incidents # <<>> /\ highest_severity # "none"
                      THEN highest_severity ELSE indicator0
    IN  IF NonOperationalComponents(components) # <<>> /\ active_incidents = <<>>
        THEN "minor" ELSE indicator1

DerivedDescription(data, service_config) ==
    LET status == Get(data, "status", [unset |-> TRUE])
        description0 == Get(status, "description", TxtNoDescription)
        components == Get(data, "components", <<>>)
        non_operational == NonOperationalComponents(components)
        active_incidents == ActiveIncidents(Get(data, "incidents", <<>>))
        description1 ==
            IF active_incidents # <<>>
            THEN IncidentsDescription(
                     IncidentMetadata(Deduplicate(active_incidents), BaseUrl(service_config)))
            ELSE description0
    IN  IF non_operational # <<>> /\ active_incidents = <<>>
        THEN TxtNonOperational
             \o Join(TxtSemicolon,
                     [i \in DOMAIN non_operational |->
                         Get(non_operational[i], "name", TxtUnknownCap)])
        ELSE description1

\* status_mapping.get(indicator.lower(), 0)  (lines 379-386)
status_mapping(indicator) ==
    CASE Lower(indicator) = "none"     -> 1
      [] Lower(indicator) = "minor"    -> 0
      [] Lower(indicator) = "major"    -> 0
      [] Lower(indicator) = "critical" -> 0
      [] OTHER                         -> 0

status_text_mapping(indicator) ==
    CASE Lower(indicator) = "none"     -> "Operational"
      [] Lower(indicator) = "minor"    -> "Minor Outage"
      [] Lower(indicator) = "major"    -> "Major Outage"
      [] Lower(indicator) = "critical" -> "Critical Outage"
      [] OTHER                         -> "Unknown"

\* the result dict of lines 400-410, before label preservation
ParsedResult(data, response_time, service_config) ==
    LET indicator == DerivedIndicator(data)
        active_incidents == ActiveIncidents(Get(data, "incidents", <<>>))
    IN  [status |-> status_mapping(indicator),
         response_time |-> response_time,
         raw_status |-> indicator,
         status_text |-> status_text_mapping(indicator),
         details |-> DerivedDescription(data, service_config),
         success |-> TRUE,
         incident_metadata |->
             IncidentMetadata(Deduplicate(active_incidents), BaseUrl(service_config)),
         maintenance_metadata |->
             MaintenanceMetadata(ActiveMaintenances(Get(data, "scheduled_maintenances", <<>>))),
         component_metadata |-> ComponentMetadata(Get(data, "components", <<>>))]

\* ------------------------------------------------------------------------
\* service_checker.check_status_page_service: label preservation and cache
\* ------------------------------------------------------------------------

\* {rec.get(key, default): rec for rec in records}[k]: the last record wins
LastWithKey(records, key, default, k) ==
    LET hits == {i \in DOMAIN records : Get(records[i], key, default) = k}
    IN  records[CHOOSE i \in hits : \A j \in hits : j <= i]

KeysOf(records, key, default) ==
    {Get(records[i], key, default) : i \in DOMAIN records}

\* incident ids / maintenance ids of a result or cache entry
IdsOf(records) == KeysOf(records, "id", "unknown")

\* {(name, status_value)} of a component list
ComponentPairs(components) ==
    {<<Get(components[i], "name", TxtUnknownCap), Get(components[i], "status_value", 0)>> :
        i \in DOMAIN components}

\* a variant of lines 423-433 that takes the labels of the fetched incident
PreserveIncidentLabels_TakingFetched(incident, existing_incidents) == incident

\* lines 423-433
PreserveIncidentLabels(incident, existing_incidents) ==
    LET incident_id == Get(incident, "id", "unknown")
    IN  IF incident_id \in IdsOf(existing_incidents)
        THEN LET existing_inc == LastWithKey(existing_incidents, "id", "unknown", incident_id)
             IN  [incident EXCEPT
                    !.name = Get(existing_inc, "name", Get(incident, "name", TxtUnknownCap)),
                    !.affected_components =
                        Get(existing_inc, "affected_components",
                            Get(incident, "affected_components", <<>>)),
                    !.impact = Get(existing_inc, "impact", Get(incident, "impact", "unknown")),
                    !.shortlink = Get(existing_inc, "shortlink", Get(incident, "shortlink", TxtNA)),
                    !.started_at = Get(existing_inc, "started_at", Get(incident, "started_at", <<>>))]
        ELSE incident

\* lines 437-447
PreserveMaintenanceLabels(maintenance, existing_maintenance) ==
    LET maintenance_id == Get(maintenance, "id", "unknown")
    IN  IF maintenance_id \in IdsOf(existing_maintenance)
        THEN LET existing_maint ==
                     LastWithKey(existing_maintenance, "id", "unknown", maintenance_id)
             IN  [maintenance EXCEPT
                    !.name = Get(existing_maint, "name", Get(maintenance, "name", TxtUnknownCap)),
                    !.affected_components =
                        Get(existing_maint, "affected_components",
                            Get(maintenance, "affected_components", <<>>)),
                    !.scheduled_start =
                        Get(existing_maint, "scheduled_start",
                            Get(maintenance, "scheduled_start", <<>>)),
                    !.scheduled_end =
                        Get(existing_maint, "scheduled_end",
                            Get(maintenance, "scheduled_end", <<>>)),
                    !.shortlink =
                        Get(existing_maint, "shortlink", Get(maintenance, "shortlink", TxtNA))]
        ELSE maintenance

\* lines 415-458: the result with the labels of the existing cache entry
PreserveLabels(result, existing_cache) ==
    IF existing_cache # NoneValue
    THEN LET existing_incidents == Get(existing_cache, "incident_metadata", <<>>)
             existing_maintenance == Get(existing_cache, "maintenance_metadata", <<>>)
         IN  [result EXCEPT
                !.incident_metadata =
                    [i \in DOMAIN result.incident_metadata |->
                        PreserveIncidentLabels(result.incident_metadata[i], existing_incidents)],
                !.maintenance_metadata =
                    [i \in DOMAIN result.maintenance_metadata |->
                        PreserveMaintenanceLabels(result.maintenance_metadata[i],
                                                  existing_maintenance)]]
    ELSE result

\* a variant of lines 462-484 that always updates the cache
cache_should_update_Always(result, existing_cache) == TRUE

\* lines 462-484
cache_should_update(result, existing_cache) ==
    IF existing_cache # NoneValue
    THEN LET status_changed == Get(existing_cache, "status", StatusNone)
                                   # Get(result, "status", StatusNone)
             incidents_changed ==
                 IdsOf(Get(result, "incident_metadata", <<>>))
                     # IdsOf(Get(existing_cache, "incident_metadata", <<>>))
             maintenance_changed ==
                 IdsOf(Get(result, "maintenance_metadata", <<>>))
                     # IdsOf(Get(existing_cache, "maintenance_metadata", <<>>))
             components_changed ==
                 ComponentPairs(Get(result, "component_metadata", <<>>))
                     # ComponentPairs(Get(existing_cache, "component_metadata", <<>>))
         IN  status_changed \/ incidents_changed \/ maintenance_changed \/ components_changed
    ELSE TRUE

\* dict without one key: cache_result.pop('response_time', None)
Without(d, key) == [k \in DOMAIN d \ {key} |-> d[k]]

\* lines 486-489: what is handed to save_service_response
CacheResult(result) == Without(result, "response_time")

\* the dict returned for a successful fetch (line 498)
SuccessResult(data, response_time, service_config, existing_cache) ==
    PreserveLabels(ParsedResult(data, response_time, service_config), existing_cache)

\* ------------------------------------------------------------------------
\* service_checker.check_status_page_service: the except clauses
\* ------------------------------------------------------------------------

TxtHttp == <<"H", "T", "T", "P", " ">>
TxtColon == <<":", " ">>
TxtRequestTimeout ==
    <<"R", "e", "q", "u", "e", "s", "t", " ", "t", "i", "m", "e", "o", "u", "t", ":", " ">>
TxtConnectionFailed ==
    <<"C", "o", "n", "n", "e", "c", "t", "i", "o", "n", " ", "f", "a", "i", "l", "e", "d", ":", " ">>
TxtRequestFailed ==
    <<"R", "e", "q", "u", "e", "s", "t", " ", "f", "a", "i", "l", "e", "d", ":", " ">>
TxtInvalidJson ==
    <<"I", "n", "v", "a", "l", "i", "d", " ", "J", "S", "O", "N", " ",
      "r", "e", "s", "p", "o", "n", "s", "e", ":", " ">>
TxtUnexpected ==
    <<"U", "n", "e", "x", "p", "e", "c", "t", "e", "d", " ", "e", "r", "r", "o", "r", ":", " ">>

DigitText(d) ==
    CASE d = 0 -> "0" [] d = 1 -> "1" [] d = 2 -> "2" [] d = 3 -> "3" [] d = 4 -> "4"
      [] d = 5 -> "5" [] d = 6 -> "6" [] d = 7 -> "7" [] d = 8 -> "8" [] d = 9 -> "9"

\* str(n) for n >= 0
RECURSIVE IntText(_)
IntText(n) == IF n < 10 THEN <<DigitText(n)>> ELSE IntText(n \div 10) \o <<DigitText(n % 10)>>

\* lines 502-518
HttpErrorType(status_code) ==
    IF status_code = 404 THEN "http_404_not_found"
    ELSE IF status_code = 401 \/ status_code = 403 THEN "http_auth_error"
    ELSE IF 400 <= status_code /\ status_code < 500 THEN "http_4xx_error"
    ELSE IF 500 <= status_code /\ status_code < 600 THEN "http_5xx_error"
    ELSE "http_error"

FailureDict(raw_status, status_text, details, error) ==
    [status |-> StatusNone,
     response_time |-> 0,
     raw_status |-> raw_status,
     status_text |-> status_text,
     details |-> details,
     success |-> FALSE,
     error |-> error,
     incident_metadata |-> <<>>,
     maintenance_metadata |-> <<>>,
     component_metadata |-> <<>>]

\* the dict returned when the fetch or the parse raises (lines 500-600);
\* failure = [exception |-> class, message |-> str(e), status_code |-> int]
FailureResult(failure) ==
    CASE failure.exception = "HTTPError" ->
           FailureDict(HttpErrorType(failure.status_code), "HTTP Error",
                       TxtHttp \o IntText(failure.status_code) \o TxtColon \o failure.message,
                       failure.message)
      [] failure.exception = "Timeout" ->
           FailureDict("timeout", "Timeout", TxtRequestTimeout \o failure.message,
                       failure.message)
      [] failure.exception = "ConnectionError" ->
           FailureDict("connection_error", "Connection Error",
                       TxtConnectionFailed \o failure.message, failure.message)
      [] failure.exception = "RequestException" ->
           FailureDict("request_error", "Request Error",
                       TxtRequestFailed \o failure.message, failure.message)
      [] failure.exception = "JSONDecodeError" ->
           FailureDict("json_error", "Parse Error",
                       TxtInvalidJson \o failure.message, failure.message)
      [] OTHER ->
           Without(FailureDict("unknown_error", "Unknown Error",
                               TxtUnexpected \o failure.message, failure.message),
                   "component_metadata")

\* ------------------------------------------------------------------------
\* cache_manager
\* ------------------------------------------------------------------------

\* load_service_response: the response_data of the key's cache file, or None
load_service_response(files, service_key) == files[service_key]

\* save_service_response: the cache directory after the call; a write that
\* raises is caught and leaves the previous file (temporary file + rename)
save_service_response(files, service_key, response_data, write_ok) ==
    IF write_ok THEN [files EXCEPT ![service_key] = response_data] ELSE files

\* ------------------------------------------------------------------------
\* service_monitor.monitor_services: the mutations of one service (Step 3)
\* ------------------------------------------------------------------------

\* gauge.labels(...).set(value)
SetMutation(gauge, labels, value) ==
    [gauge |-> gauge, op |-> "set", labels |-> labels, value |-> value]

\* gauge.clear()
ClearMutation(gauge) == [gauge |-> gauge, op |-> "clear"]

\* every enumeration of a Python set (iteration order of a set is unspecified)
Orders(S) ==
    {order \in [1..Cardinality(S) -> S] :
        \A i, j \in 1..Cardinality(S) : i # j => order[i] # order[j]}

\* a variant of line 205 that updates the gauges whatever the status
HasStatus_Always(result) == TRUE

\* line 205: gauges are updated only for a non-None status
HasStatus(result) == Get(result, "status", StatusNone) # StatusNone

\* lines 207-209
ResponseTimeMutations(service_name, result) ==
    <<SetMutation("response_time", [service_name |-> service_name], result.response_time)>>

\* a variant of lines 217-226 that never finds the status unchanged
status_has_changed_Always(result, cached_data) == TRUE

\* lines 217-226
status_has_changed(result, cached_data) ==
    IF cached_data # NoneValue
    THEN Get(cached_data, "status", StatusNone) # Get(result, "status", StatusNone)
    ELSE TRUE

\* lines 232-237
StatusMutations(service_name, result, cached_data) ==
    IF status_has_changed(result, cached_data)
    THEN <<SetMutation("status", [service_name |-> service_name],
                       Get(result, "status", StatusNone))>>
    ELSE <<>>

\* a variant of lines 252-282 that never finds the incidents unchanged
incidents_have_changed_Always(result, cached_data) == TRUE

\* lines 252-282
incidents_have_changed(result, cached_data) ==
    IF cached_data # NoneValue
    THEN IdsOf(Get(result, "incident_metadata", <<>>))
             # IdsOf(Get(cached_data, "incident_metadata", <<>>))
    ELSE TRUE

\* lines 301-317: labels of a resolved incident, from the cached record
ResolvedIncidentLabels(service_name, resolved_id, resolved_inc) ==
    [service_name |-> service_name,
     incident_id |-> resolved_id,
     incident_name |-> Take(Get(resolved_inc, "name", TxtUnknownCap), NameLimit),
     impact |-> Get(resolved_inc, "impact", "unknown"),
     shortlink |-> Get(resolved_inc, "shortlink", TxtNA),
     started_at |-> normalize_timestamp(Get(resolved_inc, "started_at", TxtUnknown)),
     affected_components |->
         Take(Join(TxtCommaSpace, Get(resolved_inc, "affected_components", <<>>)),
              AffectedLimit)]

\* lines 326-349: labels of an active incident of the result
IncidentLabels(service_name, incident) ==
    [service_name |-> service_name,
     incident_id |-> Get(incident, "id", "unknown"),
     incident_name |-> Take(Get(incident, "name", TxtUnknownCap), NameLimit),
     impact |-> Get(incident, "impact", "unknown"),
     shortlink |-> Get(incident, "shortlink", TxtNA),
     started_at |-> normalize_timestamp(Get(incident, "started_at", TxtUnknown)),
     affected_components |->
         Take(Join(TxtCommaSpace, Get(incident, "affected_components", <<>>)),
              AffectedLimit)]

\* lines 357-365
NoIncidentLabels(service_name) ==
    [service_name |-> service_name,
     incident_id |-> "none",
     incident_name |-> TxtNoActiveIncidents,
     impact |-> "none",
     shortlink |-> TxtNA,
     started_at |-> TxtNA,
     affected_components |-> TxtNA]

\* a variant of lines 292-295 that finds no incident resolved
ResolvedIncidentIds_None(result, cached_data) == {}

\* cached_ids - current_ids (lines 292-295)
ResolvedIncidentIds(result, cached_data) ==
    IF cached_data # NoneValue
    THEN IdsOf(Get(cached_data, "incident_metadata", <<>>))
             \ IdsOf(Get(result, "incident_metadata", <<>>))
    ELSE {}

\* lines 290-319; order enumerates resolved_ids
ResolvedIncidentMutations(service_name, cached_data, order) ==
    [i \in DOMAIN order |->
        SetMutation("incident",
                    ResolvedIncidentLabels(
                        service_name, order[i],
                        LastWithKey(Get(cached_data, "incident_metadata", <<>>),
                                    "id", "unknown", order[i])),
                    0)]

\* lines 321-365
CurrentIncidentMutations(service_name, result) ==
    LET incident_metadata == Get(result, "incident_metadata", <<>>)
    IN  IF incident_metadata # <<>>
        THEN [i \in DOMAIN incident_metadata |->
                 SetMutation("incident", IncidentLabels(service_name, incident_metadata[i]), 1)]
        ELSE <<SetMutation("incident", NoIncidentLabels(service_name), 0)>>

\* lines 242-368
IncidentMutations(service_name, result, cached_data, order) ==
    IF incidents_have_changed(result, cached_data)
    THEN ResolvedIncidentMutations(service_name, cached_data, order)
         \o CurrentIncidentMutations(service_name, result)
    ELSE <<>>

\* a variant of lines 380-410 that never finds the maintenance unchanged
maintenance_has_changed_Always(result, cached_data) == TRUE

\* lines 380-410
maintenance_has_changed(result, cached_data) ==
    IF cached_data # NoneValue
    THEN IdsOf(Get(result, "maintenance_metadata", <<>>))
             # IdsOf(Get(cached_data, "maintenance_metadata", <<>>))
    ELSE TRUE

\* lines 429-445
ResolvedMaintenanceLabels(service_name, resolved_id, resolved_maint) ==
    [service_name |-> service_name,
     maintenance_id |-> resolved_id,
     maintenance_name |-> Take(Get(resolved_maint, "name", TxtUnknownCap), NameLimit),
     scheduled_start |->
         normalize_timestamp(Get(resolved_maint, "scheduled_start", TxtUnknown)),
     scheduled_end |-> normalize_timestamp(Get(resolved_maint, "scheduled_end", TxtUnknown)),
     shortlink |-> Get(resolved_maint, "shortlink", TxtNA),
     affected_components |->
         Take(Join(TxtCommaSpace, Get(resolved_maint, "affected_components", <<>>)),
              AffectedLimit)]

\* lines 454-476
MaintenanceLabels(service_name, maintenance) ==
    [service_name |-> service_name,
     maintenance_id |-> Get(maintenance, "id", "unknown"),
     maintenance_name |-> Take(Get(maintenance, "name", TxtUnknownCap), NameLimit),
     scheduled_start |->
         normalize_timestamp(Get(maintenance, "scheduled_start", TxtUnknown)),
     scheduled_end |-> normalize_timestamp(Get(maintenance, "scheduled_end", TxtUnknown)),
     shortlink |-> Get(maintenance, "shortlink", TxtNA),
     affected_components |->
         Take(Join(TxtCommaSpace, Get(maintenance, "affected_components", <<>>)),
              AffectedLimit)]

\* lines 484-492
NoMaintenanceLabels(service_name) ==
    [service_name |-> service_name,
     maintenance_id |-> "none",
     maintenance_name |-> TxtNoActiveMaintenance,
     scheduled_start |-> TxtNA,
     scheduled_end |-> TxtNA,
     shortlink |-> TxtNA,
     affected_components |-> TxtNA]

\* lines 420-423
ResolvedMaintenanceIds(result, cached_data) ==
    IF cached_data # NoneValue
    THEN IdsOf(Get(cached_data, "maintenance_metadata", <<>>))
             \ IdsOf(Get(result, "maintenance_metadata", <<>>))
    ELSE {}

\* lines 418-447
ResolvedMaintenanceMutations(service_name, cached_data, order) ==
    [i \in DOMAIN order |->
        SetMutation("maintenance",
                    ResolvedMaintenanceLabels(
                        service_name, order[i],
                        LastWithKey(Get(cached_data, "maintenance_metadata", <<>>),
                                    "id", "unknown", order[i])),
                    0)]

\* lines 449-492
CurrentMaintenanceMutations(service_name, result) ==
    LET maintenance_metadata == Get(result, "maintenance_metadata", <<>>)
    IN  IF maintenance_metadata # <<>>
        THEN [i \in DOMAIN maintenance_metadata |->
                 SetMutation("maintenance",
                             MaintenanceLabels(service_name, maintenance_metadata[i]), 1)]
        ELSE <<SetMutation("maintenance", NoMaintenanceLabels(service_name), 0)>>

\* lines 370-495
MaintenanceMutations(service_name, result, cached_data, order) ==
    IF maintenance_has_changed(result, cached_data)
    THEN ResolvedMaintenanceMutations(service_name, cached_data, order)
         \o CurrentMaintenanceMutations(service_name, result)
    ELSE <<>>

\* a variant of lines 505-526 that never finds the components unchanged
components_have_changed_Always(result, cached_data) == TRUE

\* lines 505-526
components_have_changed(result, cached_data) ==
    IF cached_data # NoneValue
    THEN ComponentPairs(Get(result, "component_metadata", <<>>))
             # ComponentPairs(Get(cached_data, "component_metadata", <<>>))
    ELSE TRUE

\* lines 531-534
RemovedComponentNames(result, cached_data) ==
    IF cached_data # NoneValue
    THEN KeysOf(Get(cached_data, "component_metadata", <<>>), "name", TxtUnknownCap)
             \ KeysOf(Get(result, "component_metadata", <<>>), "name", TxtUnknownCap)
    ELSE {}

\* lines 536-545; order enumerates removed_names
RemovedComponentMutations(service_name, order) ==
    [i \in DOMAIN order |->
        SetMutation("component",
                    [service_name |-> service_name, component_name |-> order[i]], 0)]

\* lines 547-566
CurrentComponentMutations(service_name, result) ==
    LET component_metadata == Get(result, "component_metadata", <<>>)
    IN  [i \in DOMAIN component_metadata |->
            SetMutation("component",
                        [service_name |-> service_name,
                         component_name |-> Get(component_metadata[i], "name", TxtUnknownCap)],
                        Get(component_metadata[i], "status_value", 0))]

\* lines 497-571
ComponentMutations(service_name, result, cached_data, order) ==
    IF components_have_changed(result, cached_data)
    THEN RemovedComponentMutations(service_name, order)
         \o CurrentComponentMutations(service_name, result)
    ELSE <<>>

\* lines 190-571 for one item of results: the sink calls, in program order
ServiceMutations(service_name, result, cached_data, inc_order, maint_order, comp_order) ==
    IF HasStatus(result)
    THEN ResponseTimeMutations(service_name, result)
         \o StatusMutations(service_name, result, cached_data)
         \o IncidentMutations(service_name, result, cached_data, inc_order)
         \o MaintenanceMutations(service_name, result, cached_data, maint_order)
         \o ComponentMutations(service_name, result, cached_data, comp_order)
    ELSE <<>>

\* ------------------------------------------------------------------------
\* Metrics sink (prometheus_client.Gauge): a gauge is the function from the
\* label combinations that have a series to the value of the series
\* ------------------------------------------------------------------------

EmptyGauge == [labels \in {} |-> 0]

GaugeSet(g, labels, value) ==
    [l \in DOMAIN g \cup {labels} |-> IF l = labels THEN value ELSE g[l]]

ApplyMutation(g, gauge, m) ==
    IF m.gauge # gauge THEN g
    ELSE IF m.op = "clear" THEN EmptyGauge
    ELSE GaugeSet(g, m.labels, m.value)

RECURSIVE ApplyMutations(_, _, _)
ApplyMutations(g, gauge, ms) ==
    IF ms = <<>> THEN g
    ELSE ApplyMutations(ApplyMutation(g, gauge, Head(ms)), gauge, Tail(ms))

\* ------------------------------------------------------------------------
\* Configuration (services.json) and the responses of the status pages
\* ------------------------------------------------------------------------

\* SERVICES.keys(), in file order
ServiceKeys == <<"e1", "e2">>

Services == Range(ServiceKeys)

SERVICES(service_key) ==
    IF service_key = "e1"
    THEN [name |-> "Svc1", url |-> <<"h", ":", "/", "/", "a">> \o TxtSummaryPath]
    ELSE [name |-> "Svc2", url |-> <<"h", ":", "/", "/", "b">> \o TxtSummaryPath]

ServiceNames == {SERVICES(k).name : k \in Services}

TsStart == <<"0", "9", ":", "1", "5", ".", "1", "8", "1", "Z">>
TsLater == <<"0", "9", ":", "4", "0", ".", "0", "0", "0", "Z">>
TsPlan == <<"2", "2", ":", "0", "0", "Z">>
TsPlanEnd == <<"2", "3", ":", "0", "0", "Z">>

CompApi == <<"A", "P", "I">>
CompWeb == <<"W", "e", "b">>

IncA ==
    [id |-> "A", name |-> <<"D", "B">>, status |-> "investigating", impact |-> "minor",
     started_at |-> TsStart, updated_at |-> TsStart, shortlink |-> <<"s", "/", "A">>,
     components |-> <<[name |-> CompApi]>>]

\* the same incident later: renamed, escalated, updated
IncAUpdated ==
    [id |-> "A", name |-> <<"D", "B", "!">>, status |-> "identified", impact |-> "major",
     started_at |-> TsStart, updated_at |-> TsLater, shortlink |-> <<"s", "/", "A">>,
     components |-> <<[name |-> CompApi], [name |-> CompWeb]>>]

\* no shortlink and no started_at
IncB ==
    [id |-> "B", name |-> <<"W", "e", "b">>, status |-> "monitoring", impact |-> "Critical",
     created_at |-> TsLater, updated_at |-> TsLater, components |-> <<>>]

IncResolved ==
    [id |-> "C", name |-> <<"O", "l", "d">>, status |-> "Resolved", impact |-> "critical",
     started_at |-> TsStart, updated_at |-> TsLater, resolved_at |-> TsLater,
     shortlink |-> <<"s", "/", "C">>, components |-> <<>>]

IncTest ==
    [id |-> "T", name |-> TxtTestMarker \o <<"x">>, status |-> "investigating",
     impact |-> "critical", started_at |-> TsStart, updated_at |-> TsStart,
     shortlink |-> <<"s", "/", "T">>, components |-> <<>>]

MaintM ==
    [id |-> "M", name |-> <<"U", "p", "g">>, status |-> "scheduled",
     scheduled_for |-> TsPlan, scheduled_until |-> TsPlanEnd,
     shortlink |-> <<"s", "/", "M">>, components |-> <<[name |-> CompApi]>>]

MaintN ==
    [id |-> "N", name |-> <<"N", "e", "t">>, status |-> "in_progress",
     scheduled_for |-> TsPlan, shortlink |-> <<"s", "/", "N">>, components |-> <<>>]

MaintDone ==
    [id |-> "D", name |-> <<"O", "l", "d">>, status |-> "completed",
     scheduled_for |-> TsPlan, scheduled_until |-> TsPlanEnd,
     shortlink |-> <<"s", "/", "D">>, components |-> <<>>]

TxtAllOperational == <<"O", "K">>

Page(indicator, components, incidents, maintenances) ==
    [status |-> [indicator |-> indicator, description |-> TxtAllOperational],
     components |-> components,
     incidents |-> incidents,
     scheduled_maintenances |-> maintenances]

Comp(name, status) == [name |-> name, status |-> status]

PageOk == Page("none", <<Comp(CompApi, "operational"), Comp(CompWeb, "operational")>>, <<>>, <<>>)

PageIncA ==
    Page("minor", <<Comp(CompApi, "degraded_performance"), Comp(CompWeb, "operational")>>,
         <<IncA>>, <<>>)

PageIncAUpdated ==
    Page("major", <<Comp(CompApi, "degraded_performance"), Comp(CompWeb, "operational")>>,
         <<IncResolved, IncAUpdated, IncA, IncTest>>, <<MaintDone>>)

PageIncAB ==
    Page("major", <<Comp(CompApi, "degraded_performance"), Comp(CompWeb, "major_outage")>>,
         <<IncA, IncB>>, <<>>)

PageIncB ==
    Page("major", <<Comp(CompApi, "Operational"), Comp(CompWeb, "major_outage")>>,
         <<IncB>>, <<MaintN>>)

PageMaintM == Page("none", <<Comp(CompApi, "operational")>>, <<>>, <<MaintM, MaintM>>)

PageMaintN ==
    Page("none", <<Comp(CompApi, "operational"), Comp(CompWeb, "operational")>>,
         <<>>, <<MaintN>>)

PageDegraded ==
    Page("none", <<Comp(CompApi, "operational"), Comp(CompWeb, "partial_outage")>>,
         <<IncTest>>, <<>>)

\* what one HTTP fetch of a service can yield: a parsed body with the elapsed
\* time, or an exception raised by the fetch or the parse
Fetched(data, response_time) == [ok |-> TRUE, data |-> data, response_time |-> response_time]

Raised(exception, status_code, message) ==
    [ok |-> FALSE, exception |-> exception, status_code |-> status_code, message |-> message]

Responses(service_key) ==
    IF service_key = "e1"
    THEN {Fetched(PageOk, 1), Fetched(PageOk, 2), Fetched(PageIncA, 1),
          Fetched(PageIncAUpdated, 1), Fetched(PageIncAB, 1), Fetched(PageIncB, 1),
          Fetched(PageMaintM, 1), Raised("KeyError", 0, <<"k">>)}
    ELSE {Fetched(PageOk, 1), Raised("Timeout", 0, <<"t">>)}

\* whether the write of the cache file can fail (disk full, permissions)
WriteOutcomes(service_key) == IF service_key = "e1" THEN {TRUE, FALSE} ELSE {TRUE}

\* bounds of the exploration
MaxCycles == 3

\* ------------------------------------------------------------------------
\* State
\* ------------------------------------------------------------------------

VARIABLES
    cache,                  \* cache directory: service key -> cached response_data or None
    status_gauge,           \* statuspage_status_gauge
    response_time_gauge,    \* statuspage_response_time_gauge
    incident_info,          \* statuspage_incident_info
    maintenance_info,       \* statuspage_maintenance_info
    component_status,       \* statuspage_component_status
    check_failures_counter, \* statuspage_check_failures_counter / outreach_check_failures_counter
                            \*   of the exporters that count failed checks
    pc,                     \* position of monitor_services: idle, check, clear, update,
                            \*   done (about to return), raised (an exception propagates)
    idx,                    \* position of the running for loop in ServiceKeys / results
    previous_caches,        \* local of monitor_services
    results,                \* local of monitor_services
    mutations,              \* the sink calls made so far by the running cycle, in order
    cycles                  \* cycles started so far

gauges == <<status_gauge, response_time_gauge, incident_info, maintenance_info,
            component_status>>

locals == <<previous_caches, results>>

vars == <<cache, status_gauge, response_time_gauge, incident_info, maintenance_info,
          component_status, check_failures_counter, pc, idx, previous_caches, results, mutations, cycles>>

\* dict with one more key
With(d, key, value) == [k \in DOMAIN d \cup {key} |-> IF k = key THEN value ELSE d[k]]

\* a fresh deployment: no cache file, nothing exported yet
Init ==
    /\ cache = [k \in Services |-> NoneValue]
    /\ status_gauge = EmptyGauge
    /\ response_time_gauge = EmptyGauge
    /\ incident_info = EmptyGauge
    /\ maintenance_info = EmptyGauge
    /\ component_status = EmptyGauge
    /\ check_failures_counter = EmptyGauge
    /\ pc = "idle"
    /\ idx = 0
    /\ previous_caches = <<>>
    /\ results = <<>>
    /\ mutations = <<>>
    /\ cycles = 0

\* ------------------------------------------------------------------------
\* service_monitor.monitor_services, step by step
\* ------------------------------------------------------------------------

\* a variant of lines 122-128 that clears the response time gauge when the
\* cycle starts, before the services are fetched
StartCycle_Clearing ==
    /\ pc = "idle"
    /\ cycles < MaxCycles
    /\ cycles' = cycles + 1
    /\ previous_caches' = [k \in Services |-> load_service_response(cache, k)]
    /\ results' = <<>>
    /\ response_time_gauge' = EmptyGauge
    /\ mutations' = <<ClearMutation("response_time")>>
    /\ pc' = "check"
    /\ idx' = 1
    /\ UNCHANGED <<check_failures_counter, cache, status_gauge, incident_info, maintenance_info, component_status>>

\* lines 122-128: the call, and the load of every service's previous cache
StartCycle ==
    /\ pc = "idle"
    /\ cycles < MaxCycles
    /\ cycles' = cycles + 1
    /\ previous_caches' = [k \in Services |-> load_service_response(cache, k)]
    /\ results' = <<>>
    /\ mutations' = <<>>
    /\ pc' = "check"
    /\ idx' = 1
    /\ UNCHANGED <<check_failures_counter, cache, gauges>>

\* lines 171-176: the test reads result['success'], and the log line reads
\* result['raw_status'] and result['response_time'] of a successful or
\* cache-substituted result
LogRaises(result) ==
    \/ "success" \notin DOMAIN result
    \/ /\ result.success \/ Get(result, "from_cache", FALSE)
       /\ ~ ({"raw_status", "response_time"} \subseteq DOMAIN result)

\* the end of one iteration of the loop of lines 131-176
Collected(service_key, result) ==
    /\ results' = Append(results, [service_key |-> service_key,
                                   service_config |-> SERVICES(service_key),
                                   result |-> result])
    /\ IF LogRaises(result)
       THEN pc' = "raised" /\ idx' = idx
       ELSE IF idx = Len(ServiceKeys)
            THEN pc' = "clear" /\ idx' = 0
            ELSE pc' = "check" /\ idx' = idx + 1

\* lines 134, 158-161 with check_status_page_service lines 134-498:
\* the fetch succeeds and the page parses
CheckSucceeds ==
    /\ pc = "check"
    /\ LET service_key == ServiceKeys[idx]
       IN  \E response \in Responses(service_key), write_ok \in WriteOutcomes(service_key) :
             /\ response.ok
             /\ LET existing_cache == load_service_response(cache, service_key)
                    result == SuccessResult(response.data, response.response_time,
                                            SERVICES(service_key), existing_cache)
                IN  /\ cache' = IF cache_should_update(result, existing_cache)
                                THEN save_service_response(cache, service_key,
                                                           CacheResult(result), write_ok)
                                ELSE cache
                    /\ Collected(service_key,
                                 With(With(result, "from_cache", FALSE),
                                      "original_failure", NoneValue))
    /\ UNCHANGED <<check_failures_counter, gauges, previous_caches, mutations, cycles>>

\* a variant of lines 138-157 that removes the cache file of a service whose
\* fetch failed
CheckFails_DroppingCache ==
    /\ pc = "check"
    /\ LET service_key == ServiceKeys[idx]
       IN  \E response \in Responses(service_key) :
             /\ ~response.ok
             /\ LET failed == FailureResult(response)
                    original_failure == [raw_status |-> Get(failed, "raw_status", "unknown"),
                                         error |-> Get(failed, "error", TxtUnknown)]
                    cached_result == load_service_response(cache, service_key)
                    result == IF cached_result # NoneValue
                              THEN With(With(cached_result, "from_cache", TRUE),
                                        "original_failure", original_failure)
                              ELSE With(With(failed, "from_cache", FALSE),
                                        "original_failure", original_failure)
                IN  Collected(service_key, result)
    /\ cache' = [cache EXCEPT ![ServiceKeys[idx]] = NoneValue]
    /\ UNCHANGED <<check_failures_counter, gauges, previous_caches, mutations, cycles>>

\* lines 138-157 with check_status_page_service lines 500-600:
\* the fetch or the parse raises; the cached response is substituted if any
CheckFails ==
    /\ pc = "check"
    /\ LET service_key == ServiceKeys[idx]
       IN  \E response \in Responses(service_key) :
             /\ ~response.ok
             /\ LET failed == FailureResult(response)
                    original_failure == [raw_status |-> Get(failed, "raw_status", "unknown"),
                                         error |-> Get(failed, "error", TxtUnknown)]
                    cached_result == load_service_response(cache, service_key)
                    result == IF cached_result # NoneValue
                              THEN With(With(cached_result, "from_cache", TRUE),
                                        "original_failure", original_failure)
                              ELSE With(With(failed, "from_cache", FALSE),
                                        "original_failure", original_failure)
                IN  Collected(service_key, result)
    /\ UNCHANGED <<check_failures_counter, cache, gauges, previous_caches, mutations, cycles>>

\* line 184
ClearResponseTime ==
    /\ pc = "clear"
    /\ response_time_gauge' = EmptyGauge
    /\ mutations' = Append(mutations, ClearMutation("response_time"))
    /\ pc' = "update"
    /\ idx' = 1
    /\ UNCHANGED <<check_failures_counter, cache, status_gauge, incident_info, maintenance_info, component_status,
                   locals, cycles>>

\* a variant of lines 190-572 that compares with the cache file as it is when
\* the service is updated, not with the cache loaded at the start of the cycle
UpdateService_ReadingCache ==
    /\ pc = "update"
    /\ LET item == results[idx]
           result == item.result
           service_name == item.service_config.name
           cached_data == load_service_response(cache, item.service_key)
       IN  \E inc_order \in Orders(ResolvedIncidentIds(result, cached_data)),
              maint_order \in Orders(ResolvedMaintenanceIds(result, cached_data)),
              comp_order \in Orders(RemovedComponentNames(result, cached_data)) :
             LET ms == ServiceMutations(service_name, result, cached_data,
                                        inc_order, maint_order, comp_order)
             IN  /\ mutations' = mutations \o ms
                 /\ status_gauge' = ApplyMutations(status_gauge, "status", ms)
                 /\ response_time_gauge' =
                        ApplyMutations(response_time_gauge, "response_time", ms)
                 /\ incident_info' = ApplyMutations(incident_info, "incident", ms)
                 /\ maintenance_info' = ApplyMutations(maintenance_info, "maintenance", ms)
                 /\ component_status' = ApplyMutations(component_status, "component", ms)
    /\ IF idx = Len(results)
       THEN pc' = "done" /\ idx' = 0
       ELSE pc' = "update" /\ idx' = idx + 1
    /\ UNCHANGED <<check_failures_counter, cache, locals, cycles>>

\* lines 190-572: one iteration of the update loop
UpdateService ==
    /\ pc = "update"
    /\ LET item == results[idx]
           result == item.result
           service_name == item.service_config.name
           cached_data == previous_caches[item.service_key]
       IN  \E inc_order \in Orders(ResolvedIncidentIds(result, cached_data)),
              maint_order \in Orders(ResolvedMaintenanceIds(result, cached_data)),
              comp_order \in Orders(RemovedComponentNames(result, cached_data)) :
             LET ms == ServiceMutations(service_name, result, cached_data,
                                        inc_order, maint_order, comp_order)
             IN  /\ mutations' = mutations \o ms
                 /\ status_gauge' = ApplyMutations(status_gauge, "status", ms)
                 /\ response_time_gauge' =
                        ApplyMutations(response_time_gauge, "response_time", ms)
                 /\ incident_info' = ApplyMutations(incident_info, "incident", ms)
                 /\ maintenance_info' = ApplyMutations(maintenance_info, "maintenance", ms)
                 /\ component_status' = ApplyMutations(component_status, "component", ms)
    /\ IF idx = Len(results)
       THEN pc' = "done" /\ idx' = 0
       ELSE pc' = "update" /\ idx' = idx + 1
    /\ UNCHANGED <<check_failures_counter, cache, locals, cycles>>

\* line 574, or the exception leaving monitor_services: the locals are gone
Return ==
    /\ pc \in {"done", "raised"}
    /\ pc' = "idle"
    /\ idx' = 0
    /\ previous_caches' = <<>>
    /\ results' = <<>>
    /\ mutations' = <<>>
    /\ UNCHANGED <<check_failures_counter, cache, gauges, cycles>>

\* the process is stopped and started again: the registry of the new process
\* is empty, the cache directory is what the old process left
Restart ==
    /\ pc = "idle"
    /\ status_gauge' = EmptyGauge
    /\ response_time_gauge' = EmptyGauge
    /\ incident_info' = EmptyGauge
    /\ maintenance_info' = EmptyGauge
    /\ component_status' = EmptyGauge
    /\ UNCHANGED <<check_failures_counter, cache, pc, idx, locals, mutations, cycles>>

Next ==
    \/ StartCycle
    \/ CheckSucceeds
    \/ CheckFails
    \/ ClearResponseTime
    \/ UpdateService
    \/ Return
    \/ Restart

Spec == Init /\ [][Next]_vars

\* the runs of one process in which every fetch succeeds: only the write of
\* the cache file can fail
NextNoFetchFailure ==
    \/ StartCycle
    \/ CheckSucceeds
    \/ ClearResponseTime
    \/ UpdateService
    \/ Return

SpecNoFetchFailure == Init /\ [][NextNoFetchFailure]_vars

\* ------------------------------------------------------------------------
\* status_monitoring.main, step by step
\* ------------------------------------------------------------------------

\* cache_manager.clear_cache() without a service key: every cache file is
\* unlinked; an exception of the file system is caught and leaves the files
clear_cache(files, unlink_ok) ==
    IF unlink_ok THEN [k \in DOMAIN files |-> NoneValue] ELSE files

\* the pages an earlier process can have fetched
Pages ==
    {PageOk, PageIncA, PageIncAUpdated, PageIncAB, PageIncB, PageMaintM, PageMaintN,
     PageDegraded}

\* what an earlier process can have left in the cache file of a service
LeftInCache(service_key) ==
    {NoneValue} \cup
    {CacheResult(SuccessResult(page, 1, SERVICES(service_key), NoneValue)) : page \in Pages}

\* lines 74-98: the process starts with the cache directory an earlier
\* process left, empty gauges, the metrics server up and the job added to a
\* scheduler that is not started yet
InitMain ==
    /\ cache \in {files \in [Services -> UNION {LeftInCache(k) : k \in Services}] :
                      \A k \in Services : files[k] \in LeftInCache(k)}
    /\ status_gauge = EmptyGauge
    /\ response_time_gauge = EmptyGauge
    /\ incident_info = EmptyGauge
    /\ maintenance_info = EmptyGauge
    /\ component_status = EmptyGauge
    /\ check_failures_counter = EmptyGauge
    /\ pc = "main"
    /\ idx = 0
    /\ previous_caches = <<>>
    /\ results = <<>>
    /\ mutations = <<>>
    /\ cycles = 0

\* lines 101-104: CLEAR_CACHE is set
MainClearsCache ==
    /\ pc = "main"
    /\ \E unlink_ok \in {TRUE, FALSE} : cache' = clear_cache(cache, unlink_ok)
    /\ pc' = "initial_run"
    /\ UNCHANGED <<check_failures_counter, gauges, idx, previous_caches, results, mutations, cycles>>

\* lines 101, 105-106: CLEAR_CACHE is not set
MainKeepsCache ==
    /\ pc = "main"
    /\ pc' = "initial_run"
    /\ UNCHANGED <<check_failures_counter, cache, gauges, idx, previous_caches, results, mutations, cycles>>

\* line 111: monitor_services(is_initial_run=True), but monitor_services
\* (service_monitor.py line 110) takes no parameter: the call raises TypeError
\* before the body of monitor_services runs, nothing in main catches it, and
\* line 116 (scheduler.start()) is not reached
MainInitialRun ==
    /\ pc = "initial_run"
    /\ pc' = "type_error"
    /\ UNCHANGED <<check_failures_counter, cache, gauges, idx, previous_caches, results, mutations, cycles>>

NextMain ==
    \/ MainClearsCache
    \/ MainKeepsCache
    \/ MainInitialRun

SpecMain == InitMain /\ [][NextMain]_vars

\* ------------------------------------------------------------------------
\* service_checker.check_status_page_service on the bodies a status page
\* can answer with
\* ------------------------------------------------------------------------

\* an active incident without impact on the service
IncNone ==
    [id |-> "E", name |-> <<"F", "Y", "I">>, status |-> "investigating", impact |-> "none",
     started_at |-> TsStart, updated_at |-> TsStart, shortlink |-> <<"s", "/", "E">>,
     components |-> <<>>]

\* an incident with a resolution timestamp whose status is not terminal
IncClosed ==
    [id |-> "F", name |-> <<"F", "i", "x">>, status |-> "monitoring", impact |-> "major",
     started_at |-> TsStart, updated_at |-> TsLater, resolved_at |-> TsLater,
     shortlink |-> <<"s", "/", "F">>, components |-> <<>>]

\* the maintenance M once more in the same body, renamed
MaintMAgain ==
    [id |-> "M", name |-> <<"U", "p", "g", "2">>, status |-> "in_progress",
     scheduled_for |-> TsPlan, scheduled_until |-> TsPlanEnd,
     shortlink |-> <<"s", "/", "M">>, components |-> <<>>]

\* a maintenance with a resolution timestamp whose status is not terminal
MaintClosed ==
    [id |-> "K", name |-> <<"E", "n", "d">>, status |-> "verifying",
     scheduled_for |-> TsPlan, scheduled_until |-> TsPlanEnd, resolved_at |-> TsPlanEnd,
     shortlink |-> <<"s", "/", "K">>, components |-> <<>>]

\* longest incident list of a fetched body
MaxIncidents == 2

FetchedIndicators == {"none", "minor", "major", "critical", "maintenance", "garbage"}

FetchedIncidents == {IncA, IncAUpdated, IncB, IncResolved, IncTest, IncNone, IncClosed}

FetchedIncidentLists == UNION {[1..n -> FetchedIncidents] : n \in 0..MaxIncidents}

FetchedMaintenanceLists ==
    {<<>>, <<MaintM, MaintMAgain>>, <<MaintDone, MaintN, MaintClosed>>}

FetchedComponentLists ==
    {<<>>,
     <<Comp(CompApi, "operational"), Comp(CompWeb, "Operational")>>,
     <<Comp(CompApi, "degraded_performance"), Comp(CompWeb, "partial_outage"),
       Comp(<<"D", "B">>, "major_outage"), Comp(<<"C", "D", "N">>, "degraded")>>,
     <<Comp(CompApi, "under_maintenance"), Comp(CompWeb, "operational"),
       Comp(<<"D", "B">>, "garbage")>>}

FetchedPages ==
    {Page(indicator, components, incidents, maintenances) :
         indicator \in FetchedIndicators, components \in FetchedComponentLists,
         incidents \in FetchedIncidentLists, maintenances \in FetchedMaintenanceLists}

\* the cache file of the checked service: none, or the incident A as first seen
ExistingCaches(service_key) ==
    {NoneValue, CacheResult(SuccessResult(PageIncA, 1, SERVICES(service_key), NoneValue))}

\* line 151: the body of a service has been fetched and decoded; it is kept
\* in the item that the check of the service will complete
InitParse ==
    /\ \E existing_cache \in ExistingCaches("e1") :
           cache = [k \in Services |-> IF k = "e1" THEN existing_cache ELSE NoneValue]
    /\ status_gauge = EmptyGauge
    /\ response_time_gauge = EmptyGauge
    /\ incident_info = EmptyGauge
    /\ maintenance_info = EmptyGauge
    /\ component_status = EmptyGauge
    /\ check_failures_counter = EmptyGauge
    /\ pc = "fetched"
    /\ idx = 1
    /\ previous_caches = cache
    /\ \E data \in FetchedPages :
           results = <<[service_key |-> "e1", service_config |-> SERVICES("e1"),
                        data |-> data]>>
    /\ mutations = <<>>
    /\ cycles = 1

\* lines 153-498: the fetched body is parsed, the labels of the cache are
\* preserved, the cache is written when it should be, the result is returned
ParseFetched ==
    /\ pc = "fetched"
    /\ LET item == results[1]
           existing_cache == load_service_response(cache, item.service_key)
           result == SuccessResult(item.data, 1, item.service_config, existing_cache)
       IN  /\ cache' = IF cache_should_update(result, existing_cache)
                       THEN save_service_response(cache, item.service_key,
                                                  CacheResult(result), TRUE)
                       ELSE cache
           /\ results' = <<With(item, "result",
                                With(With(result, "from_cache", FALSE),
                                     "original_failure", NoneValue))>>
    /\ pc' = "parsed"
    /\ UNCHANGED <<check_failures_counter, gauges, idx, previous_caches, mutations, cycles>>

NextParse == ParseFetched

SpecParse == InitParse /\ [][NextParse]_vars

\* the body that was fetched, and the result the check made of it
Parsed == pc = "parsed"

FetchedData == results[1].data

PollResult == results[1].result

\* ------------------------------------------------------------------------
\* The component status mappings of the Atlassian and the Outreach exporter
\* on the component lists a status page can show
\* ------------------------------------------------------------------------

\* outreach_monitor.py line 41
SERVICE_NAME == "Outreach"

\* outreach_monitor.py lines 123-130: status_mapping.get(comp_status.lower(), 1)
comp_status_value(comp_status) ==
    CASE Lower(comp_status) = "operational" -> 1
      [] Lower(comp_status) = "maintenance" -> 0
      [] Lower(comp_status) = "degraded"    -> -1
      [] Lower(comp_status) = "down"        -> -1
      [] Lower(comp_status) = "unknown"     -> 1
      [] OTHER                              -> 1

\* outreach_monitor.py lines 114-135: one set per component of the result
OutreachComponentMutations(components) ==
    [i \in DOMAIN components |->
        SetMutation("component",
                    [service_name |-> SERVICE_NAME,
                     component_name |-> Get(components[i], "name", TxtUnknownCap)],
                    comp_status_value(Get(components[i], "status", "unknown")))]

\* longest component list
MaxComponents == 2

ComponentStatuses ==
    {"operational", "Operational", "degraded", "degraded_performance", "partial_outage",
     "major_outage", "maintenance", "under_maintenance", "down", "unknown", "garbage"}

\* lists of components with different names
ShownComponents ==
    LET names == <<CompApi, CompWeb, <<"D", "B">>, <<"C", "D", "N">>>>
    IN  UNION {{[i \in 1..n |-> Comp(names[i], statuses[i])] :
                    statuses \in [1..n -> ComponentStatuses]} : n \in 1..MaxComponents}

\* a status page shows a list of components
InitComponents ==
    /\ cache = [k \in Services |-> NoneValue]
    /\ status_gauge = EmptyGauge
    /\ response_time_gauge = EmptyGauge
    /\ incident_info = EmptyGauge
    /\ maintenance_info = EmptyGauge
    /\ component_status = EmptyGauge
    /\ check_failures_counter = EmptyGauge
    /\ pc = "components"
    /\ idx = 0
    /\ previous_caches = <<>>
    /\ \E components \in ShownComponents : results = <<[components |-> components]>>
    /\ mutations = <<>>
    /\ cycles = 0

\* service_checker.py lines 165-185: the Atlassian checker builds
\* component_metadata from the components of the fetched body
AtlassianMapsComponents ==
    /\ pc = "components"
    /\ results' = <<With(results[1], "component_metadata",
                         ComponentMetadata(results[1].components))>>
    /\ pc' = "atlassian"
    /\ UNCHANGED <<check_failures_counter, cache, gauges, idx, previous_caches, mutations, cycles>>

\* outreach_monitor.py lines 114-135: the Outreach monitor sets the component
\* gauge from the components of the result
OutreachSetsComponents ==
    /\ pc = "components"
    /\ LET ms == OutreachComponentMutations(results[1].components)
       IN  /\ mutations' = mutations \o ms
           /\ component_status' = ApplyMutations(component_status, "component", ms)
    /\ pc' = "outreach"
    /\ UNCHANGED <<check_failures_counter, cache, status_gauge, response_time_gauge, incident_info, maintenance_info,
                   idx, previous_caches, results, cycles>>

NextComponents ==
    \/ AtlassianMapsComponents
    \/ OutreachSetsComponents

SpecComponents == InitComponents /\ [][NextComponents]_vars

\* the integer a component of the shown list has been mapped to
MappedValue(i) ==
    IF pc = "atlassian"
    THEN results[1].component_metadata[i].status_value
    ELSE component_status[[service_name |-> SERVICE_NAME,
                           component_name |-> results[1].components[i].name]]

\* the status string of a component of the shown list
ShownStatus(i) == results[1].components[i].status

\* ------------------------------------------------------------------------
\* service_monitor.normalize_timestamp on the timestamp labels it is given
\* ------------------------------------------------------------------------

\* most parts of a timestamp string
MaxTimestampParts == 4

\* minutes and seconds, fractions of two, three and six digits, the UTC
\* designator, an offset, and the two placeholders of the monitor
TimestampParts ==
    {<<"0", "9">>, <<".", "1", "8">>, <<".", "1", "2", "3">>,
     <<".", "1", "8", "1", "2", "3", "4">>, <<"Z">>, <<"+", "0", "0">>, TxtNA, TxtUnknown}

TimestampStrings ==
    {Join(<<>>, parts) :
         parts \in UNION {[1..n -> TimestampParts] : n \in 0..MaxTimestampParts}}

\* lines 307, 331, 433-434, 457-458: a timestamp of an incident or a maintenance is
\* about to become a label
InitTimestamp ==
    /\ cache = [k \in Services |-> NoneValue]
    /\ status_gauge = EmptyGauge
    /\ response_time_gauge = EmptyGauge
    /\ incident_info = EmptyGauge
    /\ maintenance_info = EmptyGauge
    /\ component_status = EmptyGauge
    /\ check_failures_counter = EmptyGauge
    /\ pc = "timestamp"
    /\ idx = 0
    /\ previous_caches = <<>>
    /\ \E timestamp_str \in TimestampStrings :
           results = <<[timestamp_str |-> timestamp_str]>>
    /\ mutations = <<>>
    /\ cycles = 0

\* lines 91-108
NormalizesTimestamp ==
    /\ pc = "timestamp"
    /\ results' = <<With(results[1], "normalized",
                         normalize_timestamp(results[1].timestamp_str))>>
    /\ pc' = "normalized"
    /\ UNCHANGED <<check_failures_counter, cache, gauges, idx, previous_caches, mutations, cycles>>

NextTimestamp == NormalizesTimestamp

SpecTimestamp == InitTimestamp /\ [][NextTimestamp]_vars

\* the text has a fractional-second part before Z or a UTC offset: a point,
\* digits, and then Z, + or -
HasFraction(text) ==
    \E i, j \in DOMAIN text :
        /\ i + 1 < j
        /\ text[i] = "."
        /\ \A k \in (i + 1)..(j - 1) : text[k] \in Digits
        /\ text[j] \in {"Z", "+", "-"}

\* the number of points in the text
Points(text) == Cardinality({i \in DOMAIN text : text[i] = "."})

\* ------------------------------------------------------------------------
\* outreach_checker.check_outreach_status: the result derived from what the
\* parse of the Outreach status page has extracted
\* ------------------------------------------------------------------------

TxtIncident == <<"I", "n", "c", "i", "d", "e", "n", "t">>
TxtMaintenance == <<"M", "a", "i", "n", "t", "e", "n", "a", "n", "c", "e">>
TxtOutreachIncident ==
    <<"o", "u", "t", "r", "e", "a", "c", "h", "-", "i", "n", "c", "i", "d", "e", "n", "t", "-">>
TxtOutreachMaintenance ==
    <<"o", "u", "t", "r", "e", "a", "c", "h", "-",
      "m", "a", "i", "n", "t", "e", "n", "a", "n", "c", "e", "-">>
TxtNonOperationalComponents ==
    <<"N", "o", "n", "-", "o", "p", "e", "r", "a", "t", "i", "o", "n", "a", "l", " ",
      "c", "o", "m", "p", "o", "n", "e", "n", "t", "s", ":", " ">>
TxtAllSystemsOperational ==
    <<"A", "l", "l", " ", "s", "y", "s", "t", "e", "m", "s", " ",
      "o", "p", "e", "r", "a", "t", "i", "o", "n", "a", "l">>

\* outreach_checker.py line 500
non_operational_components(components) ==
    SelectSeq(components, LAMBDA c : c.status \notin {"operational", "unknown"})

\* lines 505-514: the severity the raw status names
OutreachRawStatus(incidents) ==
    LET severities == {Get(incidents[i], "impact", "minor") : i \in DOMAIN incidents}
    IN  IF "critical" \in severities THEN "critical"
        ELSE IF "major" \in severities THEN "major"
        ELSE "minor"

OutreachStatusText(raw_status) ==
    CASE raw_status = "critical" -> "Critical Outage"
      [] raw_status = "major"    -> "Major Outage"
      [] OTHER                   -> "Minor Outage"

\* lines 516-522
OutreachIncidentDetails(incidents) ==
    Join(TxtSemicolon,
         [i \in DOMAIN incidents |->
             Get(incidents[i], "title", TxtIncident)
             \o (IF Get(incidents[i], "description", <<>>) # <<>>
                 THEN TxtColon \o Take(Get(incidents[i], "description", <<>>), NameLimit)
                 ELSE <<>>)])

\* lines 525-535
OutreachIncidentMetadata(incidents) ==
    [i \in DOMAIN incidents |->
        [id |-> TxtOutreachIncident \o IntText(i),
         name |-> Get(incidents[i], "title", TxtIncident),
         status |-> "investigating",
         impact |-> Get(incidents[i], "impact", "minor"),
         started_at |-> Get(incidents[i], "timestamp", <<>>),
         updated_at |-> Get(incidents[i], "timestamp", <<>>),
         shortlink |-> <<>>,
         affected_components |-> <<>>]]

\* lines 552-561
OutreachMaintenanceMetadata(maintenances) ==
    [i \in DOMAIN maintenances |->
        [id |-> TxtOutreachMaintenance \o IntText(i),
         name |-> Get(maintenances[i], "title", TxtMaintenance),
         status |-> "scheduled",
         scheduled_start |-> Get(maintenances[i], "timestamp", <<>>),
         scheduled_end |-> <<>>,
         shortlink |-> <<>>,
         affected_components |-> <<>>]]

\* lines 387-392 and 566-577: the result dict
OutreachResult(status_value, raw_status, status_text, details, incident_metadata, maintenance_metadata, components, response_time, use_selenium) ==
    [status |-> status_value,
     response_time |-> response_time,
     raw_status |-> raw_status,
     status_text |-> status_text,
     details |-> details,
     success |-> TRUE,
     incident_metadata |-> incident_metadata,
     maintenance_metadata |-> maintenance_metadata,
     components |-> components,
     javascript_rendered |-> use_selenium]

\* a variant of lines 503-561 that looks at the maintenance events before
\* the components
DetermineOverallStatus_MaintenanceFirst(components, incidents, maintenances, response_time, use_selenium) ==
    IF incidents # <<>>
    THEN OutreachResult(-1, OutreachRawStatus(incidents),
                        OutreachStatusText(OutreachRawStatus(incidents)),
                        OutreachIncidentDetails(incidents),
                        OutreachIncidentMetadata(incidents), <<>>, components,
                        response_time, use_selenium)
    ELSE IF maintenances # <<>>
    THEN OutreachResult(0, "maintenance", "Maintenance",
                        Join(TxtSemicolon,
                             [i \in DOMAIN maintenances |->
                                 Get(maintenances[i], "title", TxtMaintenance)]),
                        <<>>, OutreachMaintenanceMetadata(maintenances), components,
                        response_time, use_selenium)
    ELSE IF non_operational_components(components) # <<>>
    THEN OutreachResult(-1, "degraded", "Degraded",
                        TxtNonOperationalComponents
                        \o Join(TxtCommaSpace,
                                [i \in DOMAIN non_operational_components(components) |->
                                    non_operational_components(components)[i].name]),
                        <<>>, <<>>, components, response_time, use_selenium)
    ELSE OutreachResult(1, "operational", "Operational", TxtAllSystemsOperational,
                        <<>>, <<>>, components, response_time, use_selenium)

\* lines 499-577: incidents, then non-operational components, then
\* maintenance events, else operational
DetermineOverallStatus(components, incidents, maintenances, response_time, use_selenium) ==
    IF incidents # <<>>
    THEN OutreachResult(-1, OutreachRawStatus(incidents),
                        OutreachStatusText(OutreachRawStatus(incidents)),
                        OutreachIncidentDetails(incidents),
                        OutreachIncidentMetadata(incidents), <<>>, components,
                        response_time, use_selenium)
    ELSE IF non_operational_components(components) # <<>>
    THEN OutreachResult(-1, "degraded", "Degraded",
                        TxtNonOperationalComponents
                        \o Join(TxtCommaSpace,
                                [i \in DOMAIN non_operational_components(components) |->
                                    non_operational_components(components)[i].name]),
                        <<>>, <<>>, components, response_time, use_selenium)
    ELSE IF maintenances # <<>>
    THEN OutreachResult(0, "maintenance", "Maintenance",
                        Join(TxtSemicolon,
                             [i \in DOMAIN maintenances |->
                                 Get(maintenances[i], "title", TxtMaintenance)]),
                        <<>>, OutreachMaintenanceMetadata(maintenances), components,
                        response_time, use_selenium)
    ELSE OutreachResult(1, "operational", "Operational", TxtAllSystemsOperational,
                        <<>>, <<>>, components, response_time, use_selenium)

TxtHttpUnderscore == <<"h", "t", "t", "p", "_">>
TxtUnderscoreError == <<"_", "e", "r", "r", "o", "r">>
TxtErrorParsingHtml ==
    <<"E", "r", "r", "o", "r", " ", "p", "a", "r", "s", "i", "n", "g", " ",
      "H", "T", "M", "L", ":", " ">>

\* the dicts of lines 582-593, 596-607, 610-621 and 624-635
OutreachFailureDict(raw_status, status_text, details, error) ==
    [status |-> StatusNone,
     response_time |-> 0,
     raw_status |-> raw_status,
     status_text |-> status_text,
     details |-> details,
     success |-> FALSE,
     error |-> error,
     incident_metadata |-> <<>>,
     maintenance_metadata |-> <<>>,
     components |-> <<>>]

\* lines 579-635: the except clauses of check_outreach_status, in order;
\* failure = [exception |-> class, message |-> str(e), status_code |-> int]
OutreachFailureResult(failure) ==
    CASE failure.exception = "HTTPError" ->
           OutreachFailureDict(
               TxtHttpUnderscore \o IntText(failure.status_code) \o TxtUnderscoreError,
               "HTTP Error",
               TxtHttp \o IntText(failure.status_code) \o TxtColon \o failure.message,
               failure.message)
      [] failure.exception = "Timeout" ->
           OutreachFailureDict(<<"t", "i", "m", "e", "o", "u", "t">>, "Timeout",
                               TxtRequestTimeout \o failure.message, failure.message)
      [] failure.exception = "ConnectionError" ->
           OutreachFailureDict(<<"c", "o", "n", "n", "e", "c", "t", "i", "o", "n", "_",
                                 "e", "r", "r", "o", "r">>,
                               "Connection Error",
                               TxtConnectionFailed \o failure.message, failure.message)
      [] OTHER ->
           OutreachFailureDict(<<"p", "a", "r", "s", "e", "_", "e", "r", "r", "o", "r">>,
                               "Parse Error",
                               TxtErrorParsingHtml \o failure.message, failure.message)

\* what one load of the Outreach page can yield: the components, incidents
\* and maintenance events extracted from the page (lines 384-497), or an
\* exception raised by the load or the parse
Extracted(components, incidents, maintenances, response_time, use_selenium) ==
    [ok |-> TRUE, components |-> components, incidents |-> incidents,
     maintenances |-> maintenances, response_time |-> response_time,
     use_selenium |-> use_selenium]

\* lines 342-635
check_outreach_status(page) ==
    IF page.ok
    THEN DetermineOverallStatus(page.components, page.incidents, page.maintenances,
                                page.response_time, page.use_selenium)
    ELSE OutreachFailureResult(page)

\* ------------------------------------------------------------------------
\* The exporters that clear every gauge and redraw it each cycle:
\* statuspage-prom-exporter/service_monitor.monitor_services and
\* outreach_monitor.monitor_outreach. Both count the failed checks in a
\* counter (the Outreach gauges.py does not declare the counter its monitor
\* imports, and the gauges.py next to the first does not declare the
\* component gauge: the sink is taken with the metrics the monitors use)
\* ------------------------------------------------------------------------

\* outreach_monitor.py line 42
SERVICE_TYPE == "html_status_page"

\* service_config['type'] of the services of services.json
ServiceType(service_key) == "status_page"

\* the labels of the gauges that carry the service type
Typed(labels, service_type) == With(labels, "service_type", service_type)

\* counter.labels(...).inc()
IncMutation(gauge, labels) == [gauge |-> gauge, op |-> "inc", labels |-> labels]

\* prometheus_client.Counter: the child of a label combination starts at 0
CounterInc(counter, labels) ==
    GaugeSet(counter, labels, (IF labels \in DOMAIN counter THEN counter[labels] ELSE 0) + 1)

RECURSIVE ApplyIncs(_, _)
ApplyIncs(counter, ms) ==
    IF ms = <<>> THEN counter
    ELSE ApplyIncs(IF Head(ms).op = "inc" THEN CounterInc(counter, Head(ms).labels)
                   ELSE counter,
                   Tail(ms))

\* statuspage-prom-exporter/service_monitor.py lines 114-122,
\* outreach_monitor.py lines 104-112
RedrawStatusMutations(service_name, service_type, result) ==
    <<SetMutation("status", Typed([service_name |-> service_name], service_type),
                  result.status),
      SetMutation("response_time", Typed([service_name |-> service_name], service_type),
                  result.response_time)>>

\* statuspage-prom-exporter/service_monitor.py lines 125-171,
\* outreach_monitor.py lines 142-188
RedrawIncidentMutations(service_name, service_type, result) ==
    LET incident_metadata == Get(result, "incident_metadata", <<>>)
    IN  IF incident_metadata # <<>>
        THEN [i \in DOMAIN incident_metadata |->
                 SetMutation("incident",
                             Typed(IncidentLabels(service_name, incident_metadata[i]),
                                   service_type),
                             1)]
        ELSE <<SetMutation("incident", Typed(NoIncidentLabels(service_name), service_type),
                           0)>>

\* statuspage-prom-exporter/service_monitor.py lines 174-219,
\* outreach_monitor.py lines 191-236
RedrawMaintenanceMutations(service_name, service_type, result) ==
    LET maintenance_metadata == Get(result, "maintenance_metadata", <<>>)
    IN  IF maintenance_metadata # <<>>
        THEN [i \in DOMAIN maintenance_metadata |->
                 SetMutation("maintenance",
                             Typed(MaintenanceLabels(service_name, maintenance_metadata[i]),
                                   service_type),
                             1)]
        ELSE <<SetMutation("maintenance",
                           Typed(NoMaintenanceLabels(service_name), service_type), 0)>>

\* statuspage-prom-exporter/service_monitor.py lines 222-243
RedrawComponentMutations(service_name, result) ==
    LET component_metadata == Get(result, "component_metadata", <<>>)
    IN  [i \in DOMAIN component_metadata |->
            SetMutation("component",
                        [service_name |-> service_name,
                         component_name |-> Get(component_metadata[i], "name", TxtUnknownCap)],
                        Get(component_metadata[i], "status_value", 0))]

\* lines 246-251 / outreach_monitor.py lines 239-244
FailureMutations(service_name, service_type, result) ==
    <<IncMutation("check_failures",
                  [service_name |-> service_name,
                   service_type |-> service_type,
                   error_type |-> Get(result, "raw_status", "unknown")])>>

\* a variant of lines 111-251 that counts a failure for every result
SimpleServiceMutations_CountingAll(service_name, service_type, result) ==
    (IF Get(result, "status", StatusNone) # StatusNone
     THEN RedrawStatusMutations(service_name, service_type, result)
          \o RedrawIncidentMutations(service_name, service_type, result)
          \o RedrawMaintenanceMutations(service_name, service_type, result)
          \o RedrawComponentMutations(service_name, result)
     ELSE <<>>)
    \o FailureMutations(service_name, service_type, result)

\* statuspage-prom-exporter/service_monitor.py lines 96-251 for one item of
\* results: the sink calls, in program order
SimpleServiceMutations(service_name, service_type, result) ==
    IF Get(result, "status", StatusNone) # StatusNone
    THEN RedrawStatusMutations(service_name, service_type, result)
         \o RedrawIncidentMutations(service_name, service_type, result)
         \o RedrawMaintenanceMutations(service_name, service_type, result)
         \o RedrawComponentMutations(service_name, result)
    ELSE FailureMutations(service_name, service_type, result)

\* outreach_monitor.py lines 95-244: the sink calls, in program order
OutreachMutations(result) ==
    IF Get(result, "status", StatusNone) # StatusNone
    THEN RedrawStatusMutations(SERVICE_NAME, SERVICE_TYPE, result)
         \o OutreachComponentMutations(Get(result, "components", <<>>))
         \o RedrawIncidentMutations(SERVICE_NAME, SERVICE_TYPE, result)
         \o RedrawMaintenanceMutations(SERVICE_NAME, SERVICE_TYPE, result)
    ELSE FailureMutations(SERVICE_NAME, SERVICE_TYPE, result)

\* what the checks of a cycle can return: the results of the pages and of
\* the failures of each service
SimpleResponses(service_key) ==
    IF service_key = "e1"
    THEN {Fetched(PageOk, 1), Fetched(PageIncAB, 2), Fetched(PageMaintM, 1),
          Raised("Timeout", 0, <<"t">>), Raised("HTTPError", 503, <<"u">>)}
    ELSE {Fetched(PageOk, 1), Fetched(PageIncB, 1), Raised("Timeout", 0, <<"t">>)}

\* check_service_status(service_key, service_config) on a response
SimpleResult(response, service_config) ==
    IF response.ok
    THEN ParsedResult(response.data, response.response_time, service_config)
    ELSE FailureResult(response)

OutreachIncident ==
    [title |-> <<"A", "P", "I", " ", "d", "o", "w", "n">>, description |-> <<"5", "x", "x">>,
     timestamp |-> TsStart, severity |-> "major", impact |-> "major"]

OutreachIncidentUntitled ==
    [description |-> <<>>, timestamp |-> <<>>, severity |-> "unknown", impact |-> "minor"]

OutreachMaintenance ==
    [title |-> <<"U", "p", "g">>, description |-> <<>>, timestamp |-> TsPlan]

\* what the loads of the Outreach page can yield
OutreachPages ==
    {Extracted(<<Comp(CompApi, "operational")>>, <<>>, <<>>, 1, TRUE),
     Extracted(<<Comp(CompApi, "operational"), Comp(CompWeb, "degraded")>>, <<>>, <<>>, 2, TRUE),
     Extracted(<<Comp(CompApi, "operational")>>, <<OutreachIncident>>, <<>>, 1, TRUE),
     Extracted(<<>>, <<OutreachIncidentUntitled, OutreachIncident>>,
               <<OutreachMaintenance>>, 1, FALSE),
     Extracted(<<Comp(CompWeb, "operational")>>, <<>>, <<OutreachMaintenance>>, 1, TRUE),
     Raised("Timeout", 0, <<"t">>), Raised("HTTPError", 503, <<"u">>),
     Raised("ValueError", 0, <<"v">>)}

\* one of the two exporters starts: nothing exported or counted yet
InitClearAndRedraw ==
    /\ cache = [k \in Services |-> NoneValue]
    /\ status_gauge = EmptyGauge
    /\ response_time_gauge = EmptyGauge
    /\ incident_info = EmptyGauge
    /\ maintenance_info = EmptyGauge
    /\ component_status = EmptyGauge
    /\ check_failures_counter = EmptyGauge
    /\ pc \in {"simple_idle", "outreach_idle"}
    /\ idx = 0
    /\ previous_caches = <<>>
    /\ results = <<>>
    /\ mutations = <<>>
    /\ cycles = 0

\* statuspage-prom-exporter/service_monitor.py lines 59-66: the call
SimpleStartCycle ==
    /\ pc = "simple_idle"
    /\ cycles < MaxCycles
    /\ cycles' = cycles + 1
    /\ results' = <<>>
    /\ mutations' = <<>>
    /\ pc' = "simple_check"
    /\ idx' = 1
    /\ UNCHANGED <<cache, gauges, check_failures_counter, previous_caches>>

\* lines 67-84: one iteration of the loop that collects the results
SimpleCheck ==
    /\ pc = "simple_check"
    /\ \E response \in SimpleResponses(ServiceKeys[idx]) :
          LET service_key == ServiceKeys[idx]
              service_config == With(SERVICES(service_key), "type", ServiceType(service_key))
          IN  results' = Append(results,
                                [service_key |-> service_key,
                                 service_config |-> service_config,
                                 result |-> SimpleResult(response, service_config)])
    /\ IF idx = Len(ServiceKeys)
       THEN pc' = "simple_clear" /\ idx' = 0
       ELSE pc' = "simple_check" /\ idx' = idx + 1
    /\ UNCHANGED <<cache, gauges, check_failures_counter, previous_caches, mutations, cycles>>

\* a variant of lines 89-93 that leaves the incident gauge as it is
ClearAllGauges_KeepingIncidents ==
    /\ pc \in {"simple_clear", "outreach_clear"}
    /\ status_gauge' = EmptyGauge
    /\ response_time_gauge' = EmptyGauge
    /\ maintenance_info' = EmptyGauge
    /\ component_status' = EmptyGauge
    /\ mutations' = mutations \o <<ClearMutation("status"), ClearMutation("response_time"),
                                    ClearMutation("maintenance"), ClearMutation("component")>>
    /\ pc' = IF pc = "simple_clear" THEN "simple_update" ELSE "outreach_update"
    /\ idx' = 1
    /\ UNCHANGED <<cache, incident_info, check_failures_counter, locals, cycles>>

\* statuspage-prom-exporter/service_monitor.py lines 89-93,
\* outreach_monitor.py lines 88-92: the five gauges are cleared
ClearAllGauges ==
    /\ pc \in {"simple_clear", "outreach_clear"}
    /\ status_gauge' = EmptyGauge
    /\ response_time_gauge' = EmptyGauge
    /\ incident_info' = EmptyGauge
    /\ maintenance_info' = EmptyGauge
    /\ component_status' = EmptyGauge
    /\ mutations' = mutations \o <<ClearMutation("status"), ClearMutation("response_time"),
                                    ClearMutation("incident"), ClearMutation("maintenance"),
                                    ClearMutation("component")>>
    /\ pc' = IF pc = "simple_clear" THEN "simple_update" ELSE "outreach_update"
    /\ idx' = 1
    /\ UNCHANGED <<cache, check_failures_counter, locals, cycles>>

\* the sink after the calls ms
Redrawn(ms) ==
    /\ mutations' = mutations \o ms
    /\ status_gauge' = ApplyMutations(status_gauge, "status", ms)
    /\ response_time_gauge' = ApplyMutations(response_time_gauge, "response_time", ms)
    /\ incident_info' = ApplyMutations(incident_info, "incident", ms)
    /\ maintenance_info' = ApplyMutations(maintenance_info, "maintenance", ms)
    /\ component_status' = ApplyMutations(component_status, "component", ms)
    /\ check_failures_counter' = ApplyIncs(check_failures_counter, ms)

\* statuspage-prom-exporter/service_monitor.py lines 96-251: one iteration
\* of the update loop
SimpleUpdate ==
    /\ pc = "simple_update"
    /\ Redrawn(SimpleServiceMutations(results[idx].service_config.name,
                                      results[idx].service_config.type,
                                      results[idx].result))
    /\ IF idx = Len(results)
       THEN pc' = "simple_done" /\ idx' = 0
       ELSE pc' = "simple_update" /\ idx' = idx + 1
    /\ UNCHANGED <<cache, locals, cycles>>

\* outreach_monitor.py lines 62-84: the call and the check of the page
OutreachCheck ==
    /\ pc = "outreach_idle"
    /\ cycles < MaxCycles
    /\ cycles' = cycles + 1
    /\ \E page \in OutreachPages : results' = <<[result |-> check_outreach_status(page)]>>
    /\ mutations' = <<>>
    /\ pc' = "outreach_clear"
    /\ UNCHANGED <<cache, gauges, check_failures_counter, idx, previous_caches>>

\* outreach_monitor.py lines 95-244
OutreachUpdate ==
    /\ pc = "outreach_update"
    /\ Redrawn(OutreachMutations(results[1].result))
    /\ pc' = "outreach_done"
    /\ idx' = 0
    /\ UNCHANGED <<cache, locals, cycles>>

\* statuspage-prom-exporter/service_monitor.py line 253,
\* outreach_monitor.py line 246: the locals are gone
ClearAndRedrawReturn ==
    /\ pc \in {"simple_done", "outreach_done"}
    /\ pc' = IF pc = "simple_done" THEN "simple_idle" ELSE "outreach_idle"
    /\ results' = <<>>
    /\ mutations' = <<>>
    /\ UNCHANGED <<cache, gauges, check_failures_counter, idx, previous_caches, cycles>>

NextClearAndRedraw ==
    \/ SimpleStartCycle
    \/ SimpleCheck
    \/ OutreachCheck
    \/ ClearAllGauges
    \/ SimpleUpdate
    \/ OutreachUpdate
    \/ ClearAndRedrawReturn

SpecClearAndRedraw == InitClearAndRedraw /\ [][NextClearAndRedraw]_vars

\* ------------------------------------------------------------------------
\* monitor_services on cache files whose records lack fields (written by an
\* earlier version, or edited by hand)
\* ------------------------------------------------------------------------

\* what such a cache file can hold: records without id, name, timestamps,
\* components or status_value; no lists at all; a file that kept the
\* response time
SparseCaches ==
    {[status |-> 0, raw_status |-> "minor", status_text |-> "Incident",
      details |-> <<"D", "B">>, success |-> TRUE,
      incident_metadata |-> <<[impact |-> "minor"], [id |-> "A"]>>,
      maintenance_metadata |-> <<[name |-> <<"U", "p", "g">>]>>,
      component_metadata |-> <<[status |-> "degraded"], [name |-> CompApi]>>],
     [status |-> 1, raw_status |-> "none", status_text |-> "Operational",
      details |-> TxtAllOperational, success |-> TRUE],
     [status |-> 0, response_time |-> 1, raw_status |-> "minor",
      status_text |-> "Incident", details |-> <<"W", "e", "b">>, success |-> TRUE,
      incident_metadata |-> <<[id |-> "B"]>>,
      maintenance_metadata |-> <<>>,
      component_metadata |-> <<[name |-> CompWeb]>>]}

\* status_monitoring.py lines 74-98 with CLEAR_CACHE unset: the process
\* starts on the cache directory it finds
InitReconcile ==
    /\ cache \in {files \in [Services -> SparseCaches \cup {NoneValue}] :
                      files["e1"] \in SparseCaches /\ files["e2"] = NoneValue}
    /\ status_gauge = EmptyGauge
    /\ response_time_gauge = EmptyGauge
    /\ incident_info = EmptyGauge
    /\ maintenance_info = EmptyGauge
    /\ component_status = EmptyGauge
    /\ check_failures_counter = EmptyGauge
    /\ pc = "idle"
    /\ idx = 0
    /\ previous_caches = <<>>
    /\ results = <<>>
    /\ mutations = <<>>
    /\ cycles = 0

SpecReconcile == InitReconcile /\ [][Next]_vars

\* ------------------------------------------------------------------------
\* Vocabulary of the properties
\* ------------------------------------------------------------------------

NameOf(service_key) == SERVICES(service_key).name

\* the service has been checked in the running cycle
Checked(service_key) == \E i \in DOMAIN results : results[i].service_key = service_key

ItemOf(service_key) ==
    results[CHOOSE i \in DOMAIN results : results[i].service_key = service_key]

ResultOf(service_key) == ItemOf(service_key).result

\* the fetch of the service failed in the running cycle
FetchFailed(service_key) ==
    Checked(service_key) /\ ResultOf(service_key).original_failure # NoneValue

\* the fetch of the service succeeded in the running cycle
FetchSucceeded(service_key) ==
    Checked(service_key) /\ ResultOf(service_key).original_failure = NoneValue

\* the fetch failed and no cached result was there: the result has status None
NullResult(service_key) ==
    Checked(service_key) /\ ResultOf(service_key).status = StatusNone

\* the result of the running cycle for the service has a status
LiveResult(service_key) ==
    Checked(service_key) /\ ResultOf(service_key).status # StatusNone

\* the update loop has processed the service in the running cycle
UpdateRan(service_key) ==
    /\ Checked(service_key)
    /\ \/ pc = "done"
       \/ pc = "update" /\ (CHOOSE i \in DOMAIN results :
                                results[i].service_key = service_key) < idx

\* the baseline of the service as the running cycle read it at its start
BaselineOf(service_key) == previous_caches[service_key]

\* the set-calls the running cycle has made on a gauge for a service, in order
SetsOf(gauge, service_name) ==
    LET Mine(m) == /\ m.op = "set"
                   /\ m.gauge = gauge
                   /\ m.labels.service_name = service_name
    IN  SelectSeq(mutations, Mine)

\* the series of a gauge that belong to a service
SeriesOf(g, service_name) ==
    [l \in {x \in DOMAIN g : x.service_name = service_name} |-> g[l]]

\* the label combinations of a gauge that carry a value, for a service
LabelsAt(g, service_name, value) ==
    {l \in DOMAIN g : l.service_name = service_name /\ g[l] = value}

\* ------------------------------------------------------------------------
\* C1
\* ------------------------------------------------------------------------

C2_StatusGaugeTracksFetchedStatus ==
    pc = "done" =>
        \A k \in Services :
            FetchSucceeded(k) =>
                /\ [service_name |-> NameOf(k)] \in DOMAIN status_gauge
                /\ status_gauge[[service_name |-> NameOf(k)]] = ResultOf(k).status

\* ------------------------------------------------------------------------
\* C3
\* ------------------------------------------------------------------------

\* C3: a cycle that substitutes the cached result for a failed fetch does not
\* raise, and when it ends every other service with a usable result has had
\* its gauges reconciled (its response time, at least, has been set)
C3_CacheFallbackDoesNotRaise ==
    \A k \in Services :
        (FetchFailed(k) /\ Get(ResultOf(k), "from_cache", FALSE)) =>
            /\ pc # "raised"
            /\ pc = "done" =>
                   \A j \in Services \ {k} :
                       LiveResult(j) => SetsOf("response_time", NameOf(j)) # <<>>

\* ------------------------------------------------------------------------
\* C4
\* ------------------------------------------------------------------------

\* C4: no step of the fetch phase touches the status gauge, and no step of a
\* cycle changes the status gauge series of a service whose fetch failed in
\* that cycle, with or without a cached result to fall back to
C4_FetchFailureKeepsStatusGauge ==
    [][/\ pc \in {"idle", "check"} /\ pc' # "idle" => status_gauge' = status_gauge
       /\ \A k \in Services :
            FetchFailed(k)' =>
                SeriesOf(status_gauge, NameOf(k))' = SeriesOf(status_gauge, NameOf(k))]_vars

\* a cycle has ended in which the fetch of one service failed without a cached
\* result and the fetch of another failed with one, both having a status series
C4_Witness ==
    /\ pc \in {"done", "raised"}
    /\ FetchFailed("e1") /\ ~Get(ResultOf("e1"), "from_cache", FALSE)
    /\ FetchFailed("e2") /\ Get(ResultOf("e2"), "from_cache", FALSE)
    /\ SeriesOf(status_gauge, "Svc1") # EmptyGauge
    /\ SeriesOf(status_gauge, "Svc2") # EmptyGauge

\* ------------------------------------------------------------------------
\* C5
\* ------------------------------------------------------------------------

\* C5: at the end of every cycle, completed or not, for every service whose
\* result has a non-None status, the status gauge has been set by the cycle iff
\* no baseline existed at the start of the cycle or the baseline's status
\* differs from the result's; every such set carries the result's status
C5_StatusSetIffChanged ==
    pc \in {"done", "raised"} =>
        \A k \in Services :
            LiveResult(k) =>
                LET sets == SetsOf("status", NameOf(k))
                    changed == \/ BaselineOf(k) = NoneValue
                               \/ BaselineOf(k).status # ResultOf(k).status
                IN  /\ (sets # <<>>) <=> changed
                    /\ \A i \in DOMAIN sets : sets[i].value = ResultOf(k).status

\* C5 for the update step alone: for every service whose update ran with a
\* non-None status, the status gauge was set iff no baseline existed at the
\* start of the cycle or the baseline's status differs from the result's;
\* the one set carries the result's status and leaves the series at it
C5_StatusSetIffChangedByUpdate ==
    \A k \in Services :
        (UpdateRan(k) /\ LiveResult(k)) =>
            LET sets == SetsOf("status", NameOf(k))
                labels == [service_name |-> NameOf(k)]
                changed == \/ BaselineOf(k) = NoneValue
                           \/ BaselineOf(k).status # ResultOf(k).status
            IN  /\ (sets # <<>>) <=> changed
                /\ Len(sets) <= 1
                /\ \A i \in DOMAIN sets :
                       /\ sets[i].labels = labels
                       /\ sets[i].value = ResultOf(k).status
                       /\ labels \in DOMAIN status_gauge
                       /\ status_gauge[labels] = ResultOf(k).status

\* a completed cycle that wrote a changed status over a baseline, for one service,
\* and one that left the status gauge alone because the baseline had the status
C5_Witness ==
    /\ pc = "done"
    /\ BaselineOf("e1") # NoneValue
    /\ BaselineOf("e1").status = 1
    /\ LiveResult("e1") /\ ResultOf("e1").status = 0
    /\ SetsOf("status", "Svc1") # <<>>
    /\ BaselineOf("e2") # NoneValue
    /\ LiveResult("e2")
    /\ SetsOf("status", "Svc2") = <<>>

\* ------------------------------------------------------------------------
\* C6
\* ------------------------------------------------------------------------

\* C6: at the end of every completed cycle, for every service whose result has
\* a non-None status, the incident series of the service that carry value 1 are
\* exactly the incidents of that result
C6_NoStaleActiveIncident ==
    pc = "done" =>
        \A k \in Services :
            LiveResult(k) =>
                LabelsAt(incident_info, NameOf(k), 1)
                    = {IncidentLabels(NameOf(k), ResultOf(k).incident_metadata[i]) :
                           i \in DOMAIN ResultOf(k).incident_metadata}

\* ------------------------------------------------------------------------
\* C7
\* ------------------------------------------------------------------------

IncidentSets(k) == SetsOf("incident", NameOf(k))

\* the set-to-0 calls the baseline's own records of the resolved incidents give
ExpectedRetractions(k) ==
    LET cached == BaselineOf(k).incident_metadata
    IN  {SetMutation("incident",
                     [service_name |-> NameOf(k),
                      incident_id |-> cached[i].id,
                      incident_name |-> Take(cached[i].name, NameLimit),
                      impact |-> cached[i].impact,
                      shortlink |-> cached[i].shortlink,
                      started_at |-> normalize_timestamp(cached[i].started_at),
                      affected_components |->
                          Take(Join(TxtCommaSpace, cached[i].affected_components),
                               AffectedLimit)],
                     0) :
            i \in {j \in DOMAIN cached :
                      cached[j].id \notin IdsOf(ResultOf(k).incident_metadata)}}

IncidentIdSetsDiffer(k) ==
    /\ UpdateRan(k)
    /\ LiveResult(k)
    /\ BaselineOf(k) # NoneValue
    /\ IdsOf(BaselineOf(k).incident_metadata) # IdsOf(ResultOf(k).incident_metadata)

C8_CosmeticChangeSuppressed ==
    /\ [](\A k \in Services :
            (/\ Checked(k)
             /\ BaselineOf(k) # NoneValue
             /\ IdsOf(Get(ResultOf(k), "incident_metadata", <<>>))
                    = IdsOf(Get(BaselineOf(k), "incident_metadata", <<>>)))
            => IncidentSets(k) = <<>>)
    /\ [][\A k \in Services :
            (/\ Checked(k)'
             /\ BaselineOf(k)' # NoneValue
             /\ IdsOf(Get(ResultOf(k), "incident_metadata", <<>>))'
                    = IdsOf(Get(BaselineOf(k), "incident_metadata", <<>>))')
            => SeriesOf(incident_info, NameOf(k))' = SeriesOf(incident_info, NameOf(k))]_vars

\* a completed cycle whose result has the baseline's incident ids, but another
\* updated_at and lifecycle status, while the status gauge was written
C8_Witness ==
    /\ pc = "done"
    /\ BaselineOf("e1") # NoneValue
    /\ LiveResult("e1")
    /\ IdsOf(ResultOf("e1").incident_metadata) = {"A"}
    /\ IdsOf(BaselineOf("e1").incident_metadata) = {"A"}
    /\ ResultOf("e1").incident_metadata[1].updated_at
           # BaselineOf("e1").incident_metadata[1].updated_at
    /\ ResultOf("e1").details # BaselineOf("e1").details
    /\ SetsOf("response_time", "Svc1") # <<>>

\* ------------------------------------------------------------------------
\* C9
\* ------------------------------------------------------------------------

\* C9: at the end of every completed cycle, every service whose result has a
\* non-None status and no active incident has the sentinel incident series
\* (id "none", name "No Active Incidents") with value 0
C9_NoIncidentSentinelPresent ==
    pc = "done" =>
        \A k \in Services :
            (LiveResult(k) /\ ResultOf(k).incident_metadata = <<>>) =>
                /\ NoIncidentLabels(NameOf(k)) \in DOMAIN incident_info
                /\ incident_info[NoIncidentLabels(NameOf(k))] = 0

\* ------------------------------------------------------------------------
\* C10
\* ------------------------------------------------------------------------

MeaningfulFields(d) ==
    <<d.status,
      {d.incident_metadata[i].id : i \in DOMAIN d.incident_metadata},
      {d.maintenance_metadata[i].id : i \in DOMAIN d.maintenance_metadata},
      {<<d.component_metadata[i].name, d.component_metadata[i].status_value>> :
          i \in DOMAIN d.component_metadata}>>

\* the step is the check of the service, and its fetch succeeded
JustFetched(k) == ~Checked(k) /\ Checked(k)' /\ FetchSucceeded(k)'

\* C12: a step changes the stored baseline of a service only if it is a
\* successful fetch of that service and either no baseline exists or the
\* result differs from it in status, incident ids, maintenance ids or
\* component (name, status_value) pairs; a successful fetch whose result
\* differs from an existing baseline in none of these leaves it as it is,
\* whatever differs in response_time, raw_status, status_text or details
C12_BaselineUpdatePolicy ==
    [][\A k \in Services :
          /\ cache'[k] # cache[k] =>
                 /\ JustFetched(k)
                 /\ \/ cache[k] = NoneValue
                    \/ MeaningfulFields(cache[k]) # MeaningfulFields(ResultOf(k)')
          /\ (/\ JustFetched(k)
              /\ cache[k] # NoneValue
              /\ MeaningfulFields(cache[k]) = MeaningfulFields(ResultOf(k)'))
             => cache'[k] = cache[k]]_vars

\* a successful fetch has left the baseline alone although the raw status and
\* the details of the result differ from the baseline's
C12_Witness ==
    /\ FetchSucceeded("e1")
    /\ cache["e1"] # NoneValue
    /\ cache["e1"] = BaselineOf("e1")
    /\ MeaningfulFields(cache["e1"]) = MeaningfulFields(ResultOf("e1"))
    /\ cache["e1"].raw_status # ResultOf("e1").raw_status
    /\ cache["e1"].details # ResultOf("e1").details

\* ------------------------------------------------------------------------
\* C13
\* ------------------------------------------------------------------------

\* the result of the running cycle for the service, fresh or substituted, is
\* the baseline the cycle started with (response_time is no part of a baseline)
SameAsBaseline(k) ==
    /\ Checked(k)
    /\ BaselineOf(k) # NoneValue
    /\ Without(Without(Without(ResultOf(k), "response_time"), "from_cache"),
               "original_failure") = BaselineOf(k)

\* C13 as stated: a cycle whose result for a service equals the baseline makes
\* no set-call for the service on any gauge and leaves the baseline as it was
C13_UnchangedInputNoMutation ==
    \A k \in Services :
        SameAsBaseline(k) =>
            /\ \A gauge \in {"status", "response_time", "incident", "maintenance",
                             "component"} :
                   SetsOf(gauge, NameOf(k)) = <<>>
            /\ cache[k] = BaselineOf(k)

\* C13 amended: a cycle whose result for a service equals the baseline makes no
\* set-call for the service on the status, incident, maintenance and component
\* gauges and leaves the baseline as it was; the update of the service still
\* sets its response time, once, to the result's response time
C13_UnchangedInputOnlyResponseTime ==
    \A k \in Services :
        SameAsBaseline(k) =>
            /\ \A gauge \in {"status", "incident", "maintenance", "component"} :
                   SetsOf(gauge, NameOf(k)) = <<>>
            /\ cache[k] = BaselineOf(k)
            /\ SetsOf("response_time", NameOf(k))
                   = IF UpdateRan(k)
                     THEN <<SetMutation("response_time", [service_name |-> NameOf(k)],
                                        ResultOf(k).response_time)>>
                     ELSE <<>>

\* a completed cycle whose result for a service with an active incident and
\* two components equals the baseline
C13_Witness ==
    /\ pc = "done"
    /\ SameAsBaseline("e1")
    /\ ResultOf("e1").incident_metadata # <<>>
    /\ Len(ResultOf("e1").component_metadata) = 2
    /\ SeriesOf(status_gauge, "Svc1") # EmptyGauge

\* ------------------------------------------------------------------------
\* C14
\* ------------------------------------------------------------------------

GaugesReflectResult(k) ==
    LET name == NameOf(k)
        result == ResultOf(k)
        components == result.component_metadata
    IN  /\ [service_name |-> name] \in DOMAIN status_gauge
        /\ status_gauge[[service_name |-> name]] = result.status
        /\ LabelsAt(incident_info, name, 1)
               = {IncidentLabels(name, result.incident_metadata[i]) :
                      i \in DOMAIN result.incident_metadata}
        /\ LabelsAt(maintenance_info, name, 1)
               = {MaintenanceLabels(name, result.maintenance_metadata[i]) :
                      i \in DOMAIN result.maintenance_metadata}
        /\ \A l \in DOMAIN SeriesOf(component_status, name) :
               component_status[l]
                   = IF \E i \in DOMAIN components : components[i].name = l.component_name
                     THEN LET i == CHOOSE i \in DOMAIN components :
                                       components[i].name = l.component_name
                          IN  components[i].status_value
                     ELSE 0
        /\ \A i \in DOMAIN components :
               [service_name |-> name, component_name |-> components[i].name]
                   \in DOMAIN component_status

\* C15: in the runs of one process where only cache writes fail, every cycle
\* completes, and at the end of every cycle the status, incident, maintenance
\* and component gauges of every service show the result fetched in that cycle
C15_FailedWriteIsSafe ==
    /\ pc # "raised"
    /\ pc = "done" => \A k \in Services : FetchSucceeded(k) => GaugesReflectResult(k)

\* ------------------------------------------------------------------------
\* C16
\* ------------------------------------------------------------------------

\* C16: at the end of every cycle, completed or not, every service whose
\* result, fresh or substituted from the cache, has a non-None status has had
\* its response time set by the cycle, and its response-time series exists
C16_ResponseTimeSetEveryCycle ==
    pc \in {"done", "raised"} =>
        \A k \in Services :
            LiveResult(k) =>
                /\ SetsOf("response_time", NameOf(k)) # <<>>
                /\ [service_name |-> NameOf(k)] \in DOMAIN response_time_gauge

\* C16 for fresh results: at the end of every completed cycle every service
\* whose result has a non-None status has had its response time set, once, to
\* the response time of the result, changed or not since the baseline
C16_ResponseTimeSetWhenUpdated ==
    pc = "done" =>
        \A k \in Services :
            LiveResult(k) =>
                /\ SetsOf("response_time", NameOf(k))
                       = <<SetMutation("response_time", [service_name |-> NameOf(k)],
                                       ResultOf(k).response_time)>>
                /\ response_time_gauge[[service_name |-> NameOf(k)]]
                       = ResultOf(k).response_time

\* ------------------------------------------------------------------------
\* C17
\* ------------------------------------------------------------------------

\* the series of the service that a step removes from a gauge
Removed(g, service_name) ==
    {l \in DOMAIN g : l.service_name = service_name} \ DOMAIN g'

\* C17: every state of a running cycle can be scraped, so no step of a cycle
\* removes a series of a service that the same cycle writes again (a service
\* whose result has a non-None status): such a series would be missing in
\* between although it existed before the cycle and exists after it
C17_NoGapForScraper ==
    [][pc # "idle" =>
          \A k \in Services :
              LiveResult(k) =>
                  /\ Removed(status_gauge, NameOf(k)) = {}
                  /\ Removed(response_time_gauge, NameOf(k)) = {}
                  /\ Removed(incident_info, NameOf(k)) = {}
                  /\ Removed(maintenance_info, NameOf(k)) = {}
                  /\ Removed(component_status, NameOf(k)) = {}]_vars

\* ------------------------------------------------------------------------
\* C18
\* ------------------------------------------------------------------------

\* main is past its startup call (line 111)
PastInitialRun == pc \notin {"main", "initial_run"}

CallsFor(service_key) ==
    LET Mine(m) == m.op = "set" /\ m.labels.service_name = NameOf(service_key)
    IN  SelectSeq(mutations, Mine)

\* the sink calls of the update of a service when its result is compared with
\* cached_data, one sequence for every iteration order of the sets involved
UpdateAgainst(service_key, cached_data) ==
    {ServiceMutations(NameOf(service_key), ResultOf(service_key), cached_data,
                      inc_order, maint_order, comp_order) :
         inc_order \in Orders(ResolvedIncidentIds(ResultOf(service_key), cached_data)),
         maint_order \in Orders(ResolvedMaintenanceIds(ResultOf(service_key), cached_data)),
         comp_order \in Orders(RemovedComponentNames(ResultOf(service_key), cached_data))}

\* C19: the baseline of a cycle is the content of the cache when the cycle
\* starts, before any fetch, it stays what it is while the cycle runs, and the
\* sets and retractions the cycle emits for a service are those of the
\* comparison of its result with that baseline, also when a successful fetch
\* of the same cycle has rewritten the cache file
C19_StartOfCycleBaseline ==
    /\ [][pc = "idle" /\ pc' # "idle" => previous_caches' = cache /\ results' = <<>>]_vars
    /\ [][pc # "idle" /\ pc' # "idle" => previous_caches' = previous_caches]_vars
    /\ [](\A k \in Services :
              UpdateRan(k) => CallsFor(k) \in UpdateAgainst(k, BaselineOf(k)))

\* a fetch of the cycle rewrote the cache file of a service that had a
\* baseline, and the calls emitted for it are not those of a comparison with
\* the rewritten file
C19_Witness ==
    \E k \in Services :
        /\ UpdateRan(k)
        /\ FetchSucceeded(k)
        /\ BaselineOf(k) # NoneValue
        /\ cache[k] # BaselineOf(k)
        /\ CallsFor(k) \notin UpdateAgainst(k, cache[k])

\* ------------------------------------------------------------------------
\* C20
\* ------------------------------------------------------------------------

\* the series of a service in the five gauges
AllSeriesOf(service_name) ==
    <<SeriesOf(status_gauge, service_name), SeriesOf(response_time_gauge, service_name),
      SeriesOf(incident_info, service_name), SeriesOf(maintenance_info, service_name),
      SeriesOf(component_status, service_name)>>

\* C20: in a running cycle the result of a service (fetched, or substituted
\* from the cache) is collected before the first sink call that concerns the
\* service, be it a set-call with its name or a clear of a whole gauge, and
\* before any change of its series; once sink calls have begun, the collected
\* results do not change any more
C20_FetchBeforeFirstMutation ==
    /\ [](\A k \in Services :
              (CallsFor(k) # <<>> \/ \E i \in DOMAIN mutations : mutations[i].op = "clear")
                  => Checked(k))
    /\ [][\A k \in Services :
              (pc # "idle" /\ AllSeriesOf(NameOf(k))' # AllSeriesOf(NameOf(k)))
                  => Checked(k) /\ ResultOf(k)' = ResultOf(k)]_vars
    /\ [][mutations # <<>> /\ pc' # "idle" => results' = results]_vars

\* the update loop has emitted set-calls for a service whose fetch succeeded
\* in the running cycle
C20_Witness ==
    \E k \in Services :
        /\ FetchSucceeded(k)
        /\ UpdateRan(k)
        /\ Len(CallsFor(k)) > 1
        /\ \E j \in Services : FetchFailed(j)

\* ------------------------------------------------------------------------
\* C21
\* ------------------------------------------------------------------------

\* C21: the startup call of main does not raise, and when main is past it,
\* whether or not the cache was cleared before, a poll cycle has been started
\* and has run to its end (no cycle is running any more)
C21_StartupCycleRunsToCompletion ==
    /\ pc # "type_error"
    /\ PastInitialRun => (cycles >= 1 /\ results = <<>>)

\* ------------------------------------------------------------------------
\* C22
\* ------------------------------------------------------------------------

\* the service is observed for the first time: no baseline at the start of
\* the running cycle, and its fetch succeeded
FirstObservation(k) == FetchSucceeded(k) /\ BaselineOf(k) = NoneValue

\* the set-calls of a first observation
FirstObservationCalls(k) ==
    LET name == NameOf(k)
        result == ResultOf(k)
        incidents == result.incident_metadata
        maintenances == result.maintenance_metadata
        components == result.component_metadata
    IN  {SetMutation("status", [service_name |-> name], result.status),
         SetMutation("response_time", [service_name |-> name], result.response_time)}
        \cup (IF incidents = <<>>
              THEN {SetMutation("incident", NoIncidentLabels(name), 0)}
              ELSE {SetMutation("incident", IncidentLabels(name, incidents[i]), 1) :
                        i \in DOMAIN incidents})
        \cup (IF maintenances = <<>>
              THEN {SetMutation("maintenance", NoMaintenanceLabels(name), 0)}
              ELSE {SetMutation("maintenance", MaintenanceLabels(name, maintenances[i]), 1) :
                        i \in DOMAIN maintenances})
        \cup {SetMutation("component",
                          [service_name |-> name, component_name |-> components[i].name],
                          components[i].status_value) : i \in DOMAIN components}

\* the cache file of the service holds the result of the running cycle
Persisted(k) ==
    cache[k] = CacheResult(Without(Without(ResultOf(k), "from_cache"), "original_failure"))

\* C22: at the end of every cycle, every service that had no baseline and
\* whose fetch succeeded has had its status, its response time, each of its
\* incidents and maintenances (value 1, or the "none" sentinel with 0 for an
\* empty list) and each of its components (its status_value) set by the
\* cycle, and its result is the stored baseline
C22_FirstObservation ==
    pc \in {"done", "raised"} =>
        \A k \in Services :
            FirstObservation(k) =>
                /\ Range(CallsFor(k)) = FirstObservationCalls(k)
                /\ Persisted(k)

\* what holds of a first observation: a service whose update ran got exactly
\* these calls, and the cache file holds the result unless its write failed
C22_FirstObservationByUpdate ==
    \A k \in Services :
        /\ (FirstObservation(k) /\ UpdateRan(k))
               => Range(CallsFor(k)) = FirstObservationCalls(k)
        /\ FirstObservation(k) => (Persisted(k) \/ cache[k] = NoneValue)

\* a first observation whose cycle ended before the update loop, with the
\* result already stored as the baseline
C22_AbortedFirstObservation ==
    \E k \in Services :
        /\ pc = "raised"
        /\ FirstObservation(k)
        /\ Persisted(k)
        /\ CallsFor(k) = <<>>

\* ------------------------------------------------------------------------
\* C23
\* ------------------------------------------------------------------------

\* the incidents of the fetched body that are active and no synthetic test
RealActiveIncidents ==
    LET Real(inc) == ~IsTestIncident(inc)
    IN  SelectSeq(ActiveIncidents(Get(FetchedData, "incidents", <<>>)), Real)

\* the impacts of these incidents, in lower case
RealImpacts == {Lower(Get(inc, "impact", "none")) : inc \in Range(RealActiveIncidents)}

\* the maximum of these impacts under critical > major > minor > none
MaxImpact ==
    IF "critical" \in RealImpacts THEN "critical"
    ELSE IF "major" \in RealImpacts THEN "major"
    ELSE IF "minor" \in RealImpacts THEN "minor"
    ELSE "none"

\* the indicator of the fetched status page itself
RawIndicator == FetchedData.status.indicator

\* the degraded-component fallback applies: a non-operational component and
\* no active incident in the fetched body, synthetic tests included
FallbackApplies ==
    /\ NonOperationalComponents(Get(FetchedData, "components", <<>>)) # <<>>
    /\ ActiveIncidents(Get(FetchedData, "incidents", <<>>)) = <<>>

\* C23 as stated: the indicator of a poll result is the maximum impact of the
\* active incidents that are no synthetic tests, and the raw indicator of the
\* page when that maximum is "none"
C23_SeverityDerivation ==
    Parsed =>
        PollResult.raw_status = IF MaxImpact # "none" THEN MaxImpact ELSE RawIndicator

\* C23: the same, except where the degraded-component fallback applies; the
\* status of the result is the one mapped from this indicator
C23_SeverityDerivationUnlessFallback ==
    (Parsed /\ ~FallbackApplies) =>
        /\ PollResult.raw_status = IF MaxImpact # "none" THEN MaxImpact ELSE RawIndicator
        /\ PollResult.status = status_mapping(PollResult.raw_status)

\* a critical and a minor incident under a page that says "none", and an
\* incident of impact "none" under a page that says "maintenance"
C23_Witness ==
    /\ Parsed
    /\ ~FallbackApplies
    /\ \/ /\ RealImpacts = {"minor", "critical"}
          /\ RawIndicator = "none"
          /\ PollResult.raw_status = "critical"
       \/ /\ RealImpacts = {"none"}
          /\ RawIndicator = "maintenance"
          /\ PollResult.raw_status = "maintenance"

\* ------------------------------------------------------------------------
\* C24
\* ------------------------------------------------------------------------

\* the fetched body has a component that is not operational
HasNonOperationalComponent ==
    NonOperationalComponents(Get(FetchedData, "components", <<>>)) # <<>>

\* C24: a fetched body with a non-operational component and no active
\* incident, synthetic tests not counted, gives a result whose indicator is
\* "minor" and whose status is the value of a non-operational component
C24_DegradedComponentFallback ==
    (Parsed /\ HasNonOperationalComponent /\ RealActiveIncidents = <<>>) =>
        /\ PollResult.raw_status = "minor"
        /\ PollResult.status = ComponentStatusValue("major_outage")

\* what holds: the same when the body has no active incident at all
C24_FallbackWithoutAnyActiveIncident ==
    (Parsed /\ FallbackApplies) =>
        /\ PollResult.raw_status = "minor"
        /\ PollResult.status = ComponentStatusValue("major_outage")

\* a non-operational component and a synthetic test as the only active
\* incident: the result is reported operational
C24_TestIncidentHidesDegradedComponent ==
    /\ Parsed
    /\ HasNonOperationalComponent
    /\ RealActiveIncidents = <<>>
    /\ ActiveIncidents(FetchedData.incidents) # <<>>
    /\ PollResult.raw_status = "none"
    /\ PollResult.status = 1

\* ------------------------------------------------------------------------
\* C25
\* ------------------------------------------------------------------------

\* C25: the status of a poll result is an integer defined for every
\* indicator: 1 for none, a negative value for minor, major and critical, 0
\* for maintenance and for any other string
C25_StatusMappingTotality ==
    Parsed =>
        LET indicator == PollResult.raw_status
            status == PollResult.status
        IN  /\ status \in Int
            /\ indicator = "none" => status = 1
            /\ indicator \in {"minor", "major", "critical"} => status < 0
            /\ indicator \notin {"none", "minor", "major", "critical"} => status = 0

\* what holds: the mapping is total, with 1 for none and 0 for everything else
C25_StatusMappingOneOrZero ==
    Parsed =>
        /\ PollResult.status \in {0, 1}
        /\ PollResult.status = 1 <=> PollResult.raw_status = "none"
        /\ PollResult.raw_status \in FetchedIndicators

\* a page that reports a critical outage gets the status of a maintenance
C25_OutageMappedToZero ==
    /\ Parsed
    /\ RawIndicator = "critical"
    /\ PollResult.raw_status = "critical"
    /\ PollResult.status = 0

\* ------------------------------------------------------------------------
\* C26
\* ------------------------------------------------------------------------

C26_AtlassianOneOrZero ==
    pc = "atlassian" =>
        \A i \in DOMAIN results[1].components :
            MappedValue(i) = IF Lower(ShownStatus(i)) = "operational" THEN 1 ELSE 0

\* the Outreach monitor has set a component in major outage to 1
C26_OutreachOutageOperational ==
    /\ pc = "outreach"
    /\ \E i \in DOMAIN results[1].components :
           ShownStatus(i) = "major_outage" /\ MappedValue(i) = 1

\* ------------------------------------------------------------------------
\* C27
\* ------------------------------------------------------------------------

\* the fetched record has a resolution timestamp
IsResolved(rec) == Get(rec, "resolved_at", <<>>) # <<>>

\* the fetched records that a record of the result can come from: same id,
\* same status
FetchedFor(meta, fetched) ==
    {rec \in Range(fetched) : rec.id = meta.id /\ rec.status = meta.status}

\* C27: every incident of a poll result has a status outside resolved,
\* completed and postmortem and comes from a fetched incident without
\* resolution timestamp, and every maintenance of a poll result has a status
\* outside completed and cancelled and comes from a fetched maintenance
\* without resolution timestamp
C27_OnlyActiveRecords ==
    Parsed =>
        /\ \A meta \in Range(PollResult.incident_metadata) :
               /\ Lower(meta.status) \notin {"resolved", "completed", "postmortem"}
               /\ FetchedFor(meta, FetchedData.incidents) # {}
               /\ \A inc \in FetchedFor(meta, FetchedData.incidents) : ~IsResolved(inc)
        /\ \A meta \in Range(PollResult.maintenance_metadata) :
               /\ Lower(meta.status) \notin {"completed", "cancelled"}
               /\ FetchedFor(meta, FetchedData.scheduled_maintenances) # {}
               /\ \A maint \in FetchedFor(meta, FetchedData.scheduled_maintenances) :
                      ~IsResolved(maint)

\* a body with a resolved incident, an incident with a resolution timestamp, a
\* completed maintenance and a maintenance with a resolution timestamp gives a
\* result with the one maintenance that is left, and no incident
C27_Witness ==
    /\ Parsed
    /\ FetchedData.incidents = <<IncResolved, IncClosed>>
    /\ FetchedData.scheduled_maintenances = <<MaintDone, MaintN, MaintClosed>>
    /\ PollResult.incident_metadata = <<>>
    /\ IdsOf(PollResult.maintenance_metadata) = {"N"}

\* ------------------------------------------------------------------------
\* C28
\* ------------------------------------------------------------------------

\* no two records of the list have the same id
DistinctIds(records) ==
    \A i, j \in DOMAIN records : records[i].id = records[j].id => i = j

\* the first of the fetched records with the id that have no terminal status
\* and no resolution timestamp
FirstActive(fetched, id, terminal) ==
    LET live == {i \in DOMAIN fetched :
                    /\ fetched[i].id = id
                    /\ Lower(fetched[i].status) \notin terminal
                    /\ ~IsResolved(fetched[i])}
    IN  fetched[CHOOSE i \in live : \A j \in live : i <= j]

\* C28: the incidents of a poll result have different ids, and so have its
\* maintenances; each of them is made from the first of the active fetched
\* records with its id (status and time of update are those of that record)
C28_Deduplication ==
    Parsed =>
        /\ DistinctIds(PollResult.incident_metadata)
        /\ DistinctIds(PollResult.maintenance_metadata)
        /\ \A meta \in Range(PollResult.incident_metadata) :
               LET first == FirstActive(FetchedData.incidents, meta.id,
                                        {"resolved", "completed", "postmortem"})
               IN  /\ meta.status = first.status
                   /\ meta.updated_at = first.updated_at
        /\ \A meta \in Range(PollResult.maintenance_metadata) :
               meta.status = FirstActive(FetchedData.scheduled_maintenances, meta.id,
                                         {"completed", "cancelled"}).status

\* the incident A fetched twice, the later version first, and the
\* maintenance M fetched twice: one record each, made from the first
C28_Witness ==
    /\ Parsed
    /\ FetchedData.incidents = <<IncAUpdated, IncA>>
    /\ FetchedData.scheduled_maintenances = <<MaintM, MaintMAgain>>
    /\ Len(PollResult.incident_metadata) = 1
    /\ PollResult.incident_metadata[1].status = "identified"
    /\ Len(PollResult.maintenance_metadata) = 1
    /\ PollResult.maintenance_metadata[1].status = "scheduled"

\* ------------------------------------------------------------------------
\* C29
\* ------------------------------------------------------------------------

\* the fetched body without its synthetic-test incidents
WithoutTestIncidents(data) ==
    LET Real(inc) == ~IsTestIncident(inc)
    IN  [data EXCEPT !.incidents = SelectSeq(data.incidents, Real)]

\* what the check makes of the fetched body once the synthetic tests are
\* taken out of it
ResultWithoutTests ==
    ParsedResult(WithoutTestIncidents(FetchedData), 1, results[1].service_config)

\* no incident of the poll result is a synthetic test
NoTestIncidentListed ==
    /\ \A meta \in Range(PollResult.incident_metadata) : ~StartsWith(meta.name, TxtTestMarker)
    /\ \A inc \in Range(FetchedData.incidents) :
           IsTestIncident(inc) => inc.id \notin IdsOf(PollResult.incident_metadata)

\* C29: no synthetic-test incident is in the incident list of a poll result,
\* and the derived indicator and the status of the result are those the same
\* body gives without its synthetic-test incidents
C29_SyntheticTestExclusion ==
    Parsed =>
        /\ NoTestIncidentListed
        /\ PollResult.raw_status = ResultWithoutTests.raw_status
        /\ PollResult.status = ResultWithoutTests.status

\* what holds: the list is free of synthetic tests, and indicator and status
\* do not depend on them unless a component is not operational and the
\* synthetic tests are the only active incidents
C29_ExclusionButForFallback ==
    Parsed =>
        /\ NoTestIncidentListed
        /\ ~(HasNonOperationalComponent /\ RealActiveIncidents = <<>>) =>
               /\ PollResult.raw_status = ResultWithoutTests.raw_status
               /\ PollResult.status = ResultWithoutTests.status

\* a synthetic test is the only active incident of a page "none" with a
\* non-operational component: operational with it, minor outage without it
C29_TestIncidentChangesStatus ==
    /\ Parsed
    /\ FetchedData.incidents = <<IncTest>>
    /\ PollResult.raw_status = "none"
    /\ PollResult.status = 1
    /\ ResultWithoutTests.raw_status = "minor"
    /\ ResultWithoutTests.status = 0

\* ------------------------------------------------------------------------
\* C30
\* ------------------------------------------------------------------------

\* C30: normalizing a normalized timestamp changes nothing; a normalized
\* timestamp has no fractional-second part before Z or a UTC offset; the
\* empty string, "unknown" and "N/A" are returned as they are
C30_NormalizeIdempotent ==
    pc = "normalized" =>
        LET timestamp_str == results[1].timestamp_str
            normalized == results[1].normalized
        IN  /\ normalize_timestamp(normalized) = normalized
            /\ ~HasFraction(normalized)
            /\ timestamp_str \in {<<>>, TxtUnknown, TxtNA} => normalized = timestamp_str

\* what holds: the three placeholders are returned as they are, a string
\* without a point too, and a string with one point is normalized once and for
\* all, though it keeps a fraction that has not exactly three digits
C30_IdempotentWithOneFraction ==
    pc = "normalized" =>
        LET timestamp_str == results[1].timestamp_str
            normalized == results[1].normalized
        IN  /\ timestamp_str \in {<<>>, TxtUnknown, TxtNA} => normalized = timestamp_str
            /\ Points(timestamp_str) = 0 => normalized = timestamp_str
            /\ Points(timestamp_str) <= 1 => normalize_timestamp(normalized) = normalized

\* a fraction of six digits before Z that is still there after normalization
C30_MicrosecondsKept ==
    /\ pc = "normalized"
    /\ results[1].timestamp_str = <<"0", "9", ".", "1", "8", "1", "2", "3", "4", "Z">>
    /\ results[1].normalized = results[1].timestamp_str

\* a normalized string that normalization changes once more
C30_SecondPassChanges ==
    /\ pc = "normalized"
    /\ results[1].timestamp_str = <<"0", "9", ".", "1", "2", "3", ".", "1", "2", "3", "Z">>
    /\ results[1].normalized = <<"0", "9", ".", "1", "2", "3", "Z">>
    /\ normalize_timestamp(results[1].normalized) = <<"0", "9", "Z">>

\* ------------------------------------------------------------------------
\* C31  Failure counter
\* ------------------------------------------------------------------------

\* the items the running cycle of either exporter has collected, each with the
\* name and the type its series carry
CycleItems ==
    IF pc \in {"outreach_clear", "outreach_update", "outreach_done"}
    THEN <<[service_name |-> SERVICE_NAME, service_type |-> SERVICE_TYPE,
            result |-> results[1].result]>>
    ELSE [i \in DOMAIN results |->
             [service_name |-> results[i].service_config.name,
              service_type |-> results[i].service_config.type,
              result |-> results[i].result]]

\* the check of the item returned a null status
NullStatus(item) == item.result.status = StatusNone

\* the counter child of the entity and of the error category of its result
FailureLabelsOf(item) ==
    [service_name |-> item.service_name,
     service_type |-> item.service_type,
     error_type |-> IF "raw_status" \in DOMAIN item.result
                    THEN item.result.raw_status ELSE "unknown"]

CountOf(counter, labels) == IF labels \in DOMAIN counter THEN counter[labels] ELSE 0

\* the item the step that is about to run updates, if it is an update step
UpdatedItems ==
    IF pc = "simple_update" THEN {CycleItems[idx]}
    ELSE IF pc = "outreach_update" THEN {CycleItems[1]}
    ELSE {}

\* the increments of the counter the finished cycle has made for the item
IncrementsFor(item) ==
    Cardinality({n \in DOMAIN mutations :
                    /\ mutations[n].op = "inc"
                    /\ mutations[n].labels.service_name = item.service_name})

GoneIncidents(k) ==
    {r \in Range(Get(BaselineOf(k), "incident_metadata", <<>>)) :
        Get(r, "id", "unknown") \notin IdsOf(Get(ResultOf(k), "incident_metadata", <<>>))}

GoneComponents(k) ==
    {r \in Range(Get(BaselineOf(k), "component_metadata", <<>>)) :
        \A i \in DOMAIN Get(ResultOf(k), "component_metadata", <<>>) :
            Get(Get(ResultOf(k), "component_metadata", <<>>)[i], "name", TxtUnknownCap)
                # Get(r, "name", TxtUnknownCap)}

\* the finished cycle has retracted the record with the defaults for the
\* fields the record lacks
RetractedWithDefaults(k, r) ==
    \E n \in DOMAIN mutations :
        /\ mutations[n].op = "set"
        /\ mutations[n].gauge = "incident"
        /\ mutations[n].value = 0
        /\ mutations[n].labels.service_name = NameOf(k)
        /\ mutations[n].labels.incident_id = Get(r, "id", "unknown")
        /\ "name" \notin DOMAIN r => mutations[n].labels.incident_name = TxtUnknownCap
        /\ "shortlink" \notin DOMAIN r => mutations[n].labels.shortlink = TxtNA
        /\ "started_at" \notin DOMAIN r => mutations[n].labels.started_at = TxtUnknown
        /\ "affected_components" \notin DOMAIN r =>
               mutations[n].labels.affected_components = <<>>

ComponentRetractedWithDefaults(k, r) ==
    \E n \in DOMAIN mutations :
        /\ mutations[n].op = "set"
        /\ mutations[n].gauge = "component"
        /\ mutations[n].value = 0
        /\ mutations[n].labels.service_name = NameOf(k)
        /\ mutations[n].labels.component_name = Get(r, "name", TxtUnknownCap)

\* the finished cycle has defaulted what the records of the baseline lack
DefaultsApplied ==
    pc = "done" =>
        \A k \in Services :
            (LiveResult(k) /\ BaselineOf(k) # NoneValue) =>
                /\ (GoneIncidents(k) # {} \/ IdsOf(Get(ResultOf(k), "incident_metadata", <<>>))
                       # IdsOf(Get(BaselineOf(k), "incident_metadata", <<>>))) =>
                       \A r \in GoneIncidents(k) : RetractedWithDefaults(k, r)
                /\ \A r \in GoneComponents(k) : ComponentRetractedWithDefaults(k, r)

\* C32: whatever the poll result and whatever fields the incident,
\* maintenance and component records of the baseline lack, the cycle does
\* not raise, and when it ends it has used the defaults for the missing
\* fields (id "unknown", name "Unknown", empty lists, status_value 0).
C32_ReconciliationTotal ==
    /\ pc # "raised"
    /\ DefaultsApplied

\* what holds: a cycle on a baseline with sparse records raises only when it
\* has substituted, for a failed fetch, a cached result that lacks the
\* response time or the raw status, and every cycle that ends has used the
\* defaults
C32_TotalButForCacheFallback ==
    /\ pc = "raised" =>
           \E k \in Services :
               /\ FetchFailed(k)
               /\ Get(ResultOf(k), "from_cache", FALSE)
               /\ ~ ({"raw_status", "response_time"} \subseteq DOMAIN ResultOf(k))
    /\ DefaultsApplied

\* a cycle ends that has retracted an incident record without id and name
C32_SparseRecordRetracted ==
    /\ pc = "done"
    /\ \E k \in Services :
          /\ LiveResult(k)
          /\ BaselineOf(k) # NoneValue
          /\ \E r \in GoneIncidents(k) : DOMAIN r = {"impact"} /\ RetractedWithDefaults(k, r)
          /\ \E r \in GoneComponents(k) : "name" \notin DOMAIN r

\* a cycle ends that has taken a cached result with sparse records for a
\* failed fetch
C32_SparseFallbackProcessed ==
    /\ pc = "done"
    /\ \E k \in Services : FetchFailed(k) /\ Get(ResultOf(k), "from_cache", FALSE)

\* ------------------------------------------------------------------------
\* C33  The baseline is never left ahead of the gauges
\* ------------------------------------------------------------------------

\* a fetch of the running cycle has rewritten the cache file of the service
BaselineRewritten(k) == Checked(k) /\ cache[k] # BaselineOf(k)

\* the running cycle has applied to the gauges of the service the calls
\* computed against the baseline it read at its start
Reconciled(k) == UpdateRan(k) /\ CallsFor(k) \in UpdateAgainst(k, BaselineOf(k))

\* C33: no cycle ends, by returning or by an exception raised while another
\* service is processed, with the stored baseline of a service rewritten
\* and the gauges of that service not reconciled against the baseline the
\* cycle started from.
C33_BaselineNeverAheadOfGauges ==
    pc \in {"done", "raised"} =>
        \A k \in Services : BaselineRewritten(k) => Reconciled(k)

\* what holds: a cycle that returns has reconciled every service whose
\* baseline it rewrote; a cycle that leaves a rewritten baseline without
\* reconciliation is one that raised on a cached result substituted for a
\* failed fetch
C33_AheadOnlyWhenFallbackRaises ==
    \A k \in Services :
        (pc \in {"done", "raised"} /\ BaselineRewritten(k) /\ ~ Reconciled(k)) =>
            /\ pc = "raised"
            /\ \E j \in Services \ {k} :
                   FetchFailed(j) /\ Get(ResultOf(j), "from_cache", FALSE)

\* a cycle has returned after it rewrote the baseline of a service that had
\* one and reconciled the gauges of the service
C33_RewrittenAndReconciled ==
    /\ pc = "done"
    /\ \E k \in Services :
          BaselineRewritten(k) /\ BaselineOf(k) # NoneValue /\ Reconciled(k)

\* ------------------------------------------------------------------------
\* C34  Label preservation
\* ------------------------------------------------------------------------

IncidentLabelFields == {"name", "impact", "shortlink", "started_at", "affected_components"}

MaintenanceLabelFields ==
    {"name", "scheduled_start", "scheduled_end", "shortlink", "affected_components"}

\* the record with the id in a list of a cache entry
RecordWithId(cached, list, id) ==
    CHOOSE r \in Range(Get(cached, list, <<>>)) : Get(r, "id", "unknown") = id

\* the ids a list has in both cache entries
IdsInBoth(before, after, list) ==
    IF before = NoneValue \/ after = NoneValue THEN {}
    ELSE IdsOf(Get(before, list, <<>>)) \cap IdsOf(Get(after, list, <<>>))

\* the label fields of a cache record
FieldsOf(r, fields) == [f \in fields |-> r[f]]

\* every id that is in a list of the cache file before and after the step
\* keeps its label fields
StoredLabelsKept(list, fields) ==
    \A k \in Services :
        \A id \in IdsInBoth(cache[k], cache'[k], list) :
            FieldsOf(RecordWithId(cache'[k], list, id), fields)
                = FieldsOf(RecordWithId(cache[k], list, id), fields)

\* the set-calls of the running cycle that put an incident, or a maintenance
\* event, of the baseline of the service at 1
ActiveSetsFor(k, gauge, id_label, list) ==
    {n \in DOMAIN mutations :
        /\ mutations[n].op = "set"
        /\ mutations[n].gauge = gauge
        /\ mutations[n].value = 1
        /\ mutations[n].labels.service_name = NameOf(k)
        /\ BaselineOf(k) # NoneValue
        /\ mutations[n].labels[id_label] \in IdsOf(Get(BaselineOf(k), list, <<>>))}

\* C34: an incident id, or a maintenance id, that is in the stored baseline
\* before and after a step keeps the name, impact, shortlink, started_at (or
\* scheduled_start and scheduled_end) and affected_components the baseline
\* had for it, and every series a cycle sets to 1 for an id of its baseline
\* carries the labels of the baseline record, whatever the fetch carries.
C34_LabelPreservation ==
    /\ [][/\ StoredLabelsKept("incident_metadata", IncidentLabelFields)
          /\ StoredLabelsKept("maintenance_metadata", MaintenanceLabelFields)]_vars
    /\ [](\A k \in Services :
            /\ \A n \in ActiveSetsFor(k, "incident", "incident_id", "incident_metadata") :
                   mutations[n].labels
                     = IncidentLabels(NameOf(k),
                                      RecordWithId(BaselineOf(k), "incident_metadata",
                                                   mutations[n].labels.incident_id))
            /\ \A n \in ActiveSetsFor(k, "maintenance", "maintenance_id",
                                      "maintenance_metadata") :
                   mutations[n].labels
                     = MaintenanceLabels(NameOf(k),
                                         RecordWithId(BaselineOf(k), "maintenance_metadata",
                                                      mutations[n].labels.maintenance_id)))

\* the fetched incident of id A carries another name and impact than the
\* baseline, the cycle has rewritten the cache file and set the series of A,
\* and the file and the series still carry the name of the baseline
C34_Witness ==
    /\ pc = "done"
    /\ FetchSucceeded("e1")
    /\ BaselineOf("e1") # NoneValue
    /\ cache["e1"] # BaselineOf("e1")
    /\ "A" \in IdsInBoth(BaselineOf("e1"), cache["e1"], "incident_metadata")
    /\ RecordWithId(cache["e1"], "incident_metadata", "A").name = IncA.name
    /\ RecordWithId(cache["e1"], "incident_metadata", "A").updated_at = IncAUpdated.updated_at
    /\ ActiveSetsFor("e1", "incident", "incident_id", "incident_metadata") # {}

\* on every page and every existing cache entry of the parse: the ids that
\* stay keep their label fields in the file and in the result
C34_LabelsKeptByParse ==
    [][/\ StoredLabelsKept("incident_metadata", IncidentLabelFields)
       /\ StoredLabelsKept("maintenance_metadata", MaintenanceLabelFields)
       /\ \A k \in Services :
             /\ \A id \in IdsInBoth(cache[k], results'[1].result, "incident_metadata") :
                    FieldsOf(RecordWithId(results'[1].result, "incident_metadata", id),
                             IncidentLabelFields)
                      = FieldsOf(RecordWithId(cache[k], "incident_metadata", id),
                                 IncidentLabelFields)
             /\ \A id \in IdsInBoth(cache[k], results'[1].result, "maintenance_metadata") :
                    FieldsOf(RecordWithId(results'[1].result, "maintenance_metadata", id),
                             MaintenanceLabelFields)
                      = FieldsOf(RecordWithId(cache[k], "maintenance_metadata", id),
                                 MaintenanceLabelFields)]_vars

\* ------------------------------------------------------------------------
\* C35  A retraction only zeroes a live series
\* ------------------------------------------------------------------------

\* the sink calls the step adds to the calls of the running cycle
NewCalls == {n \in DOMAIN mutations' : n > Len(mutations)}

\* the calls among them that retract: a set to 0 of an incident or of a
\* maintenance event other than the sentinel, or of a component that the
\* result of the iteration no longer has
Retractions ==
    {n \in NewCalls :
        /\ mutations'[n].op = "set"
        /\ mutations'[n].value = 0
        /\ \/ /\ mutations'[n].gauge = "incident"
              /\ mutations'[n].labels.incident_id # "none"
           \/ /\ mutations'[n].gauge = "maintenance"
              /\ mutations'[n].labels.maintenance_id # "none"
           \/ /\ mutations'[n].gauge = "component"
              /\ mutations'[n].labels.component_name
                     \in RemovedComponentNames(results[idx].result,
                                               previous_caches[results[idx].service_key])}

\* the series a call targets exists in the sink before the step
LiveBefore(m) ==
    \/ m.gauge = "incident" /\ m.labels \in DOMAIN incident_info
                            /\ incident_info[m.labels] = 1
    \/ m.gauge = "maintenance" /\ m.labels \in DOMAIN maintenance_info
                               /\ maintenance_info[m.labels] = 1
    \/ m.gauge = "component" /\ m.labels \in DOMAIN component_status

RetractionsHitLiveSeries ==
    pc = "update" => \A n \in Retractions : LiveBefore(mutations'[n])

\* C35: every set-to-0 that an iteration of the update loop emits for a
\* resolved incident, an ended maintenance event or a removed component
\* targets a label combination that is in the sink before the iteration,
\* with value 1 for an incident or a maintenance event; no retraction
\* creates a series.
C35_RetractionOnlyZeroesLiveSeries == [][RetractionsHitLiveSeries]_vars

\* ------------------------------------------------------------------------
\* C36  Clear-and-redraw leaves no stale series
\* ------------------------------------------------------------------------

\* the items of the cycle whose result has a status
LiveItems == {CycleItems[i] : i \in {j \in DOMAIN CycleItems : ~ NullStatus(CycleItems[j])}}

\* a gauge as the set of its series: label combination and value
Graph(g) == {<<labels, g[labels]>> : labels \in DOMAIN g}

ExpectedStatusSeries ==
    {<<Typed([service_name |-> item.service_name], item.service_type), item.result.status>> :
        item \in LiveItems}

ExpectedResponseTimeSeries ==
    {<<Typed([service_name |-> item.service_name], item.service_type),
       item.result.response_time>> : item \in LiveItems}

ExpectedIncidentSeries ==
    UNION {IF Get(item.result, "incident_metadata", <<>>) = <<>>
           THEN {<<Typed(NoIncidentLabels(item.service_name), item.service_type), 0>>}
           ELSE {<<Typed(IncidentLabels(item.service_name, inc), item.service_type), 1>> :
                    inc \in Range(item.result.incident_metadata)} :
           item \in LiveItems}

ExpectedMaintenanceSeries ==
    UNION {IF Get(item.result, "maintenance_metadata", <<>>) = <<>>
           THEN {<<Typed(NoMaintenanceLabels(item.service_name), item.service_type), 0>>}
           ELSE {<<Typed(MaintenanceLabels(item.service_name, maint), item.service_type), 1>> :
                    maint \in Range(item.result.maintenance_metadata)} :
           item \in LiveItems}

\* the components of the result of an item, with the value of each: the
\* simple variant reads component_metadata, the Outreach variant components
ComponentValuesOf(item) ==
    IF item.service_type = SERVICE_TYPE
    THEN {<<Get(comp, "name", TxtUnknownCap),
            comp_status_value(Get(comp, "status", "unknown"))>> :
             comp \in Range(Get(item.result, "components", <<>>))}
    ELSE {<<Get(comp, "name", TxtUnknownCap), Get(comp, "status_value", 0)>> :
             comp \in Range(Get(item.result, "component_metadata", <<>>))}

ExpectedComponentSeries ==
    UNION {{<<[service_name |-> item.service_name, component_name |-> pair[1]], pair[2]>> :
               pair \in ComponentValuesOf(item)} : item \in LiveItems}

CycleFinished == pc \in {"simple_done", "outreach_done"}

C36_OutreachWitness ==
    /\ pc = "outreach_done"
    /\ cycles = MaxCycles
    /\ LiveItems = {}
    /\ DOMAIN status_gauge = {}
    /\ DOMAIN incident_info = {}

\* ------------------------------------------------------------------------
\* C37  Status derivation of the Outreach checker
\* ------------------------------------------------------------------------

\* the statuses the component extraction gives a component
\* (outreach_checker.py lines 207-285)
ExtractedStatuses == {"operational", "degraded", "down", "maintenance"}

ExtractedNames == <<CompApi, CompWeb, <<"A", "p", "p", "s">>, <<"M", "o", "b">>>>

\* the component lists of up to MaxComponents components with different names
ExtractedComponentLists ==
    UNION {{[i \in 1..n |-> Comp(ExtractedNames[i], statuses[i])] :
               statuses \in [1..n -> ExtractedStatuses]} : n \in 0..MaxComponents}

OutreachIncidentCritical ==
    [title |-> <<"D", "B">>, description |-> <<>>, timestamp |-> TsStart,
     severity |-> "critical", impact |-> "critical"]

\* the lists of up to MaxIncidents active incidents
ExtractedIncidentLists ==
    UNION {[1..n -> {OutreachIncident, OutreachIncidentUntitled, OutreachIncidentCritical}] :
              n \in 0..MaxIncidents}

ExtractedMaintenanceLists == {<<>>, <<OutreachMaintenance>>, <<OutreachMaintenance, OutreachMaintenance>>}

\* one load of the page is about to be checked
InitOutreachCheck ==
    /\ cache = [k \in Services |-> NoneValue]
    /\ status_gauge = EmptyGauge
    /\ response_time_gauge = EmptyGauge
    /\ incident_info = EmptyGauge
    /\ maintenance_info = EmptyGauge
    /\ component_status = EmptyGauge
    /\ check_failures_counter = EmptyGauge
    /\ pc = "outreach_page"
    /\ idx = 0
    /\ previous_caches = <<>>
    /\ \E components \in ExtractedComponentLists, incidents \in ExtractedIncidentLists,
          maintenances \in ExtractedMaintenanceLists :
          results = <<[page |-> Extracted(components, incidents, maintenances, 1, TRUE)]>>
    /\ mutations = <<>>
    /\ cycles = 0

\* check_outreach_status returns
OutreachChecked ==
    /\ pc = "outreach_page"
    /\ results' = <<[page |-> results[1].page,
                     result |-> check_outreach_status(results[1].page)]>>
    /\ pc' = "outreach_checked"
    /\ UNCHANGED <<cache, gauges, check_failures_counter, idx, previous_caches, mutations,
                   cycles>>

NextOutreachCheck == OutreachChecked

SpecOutreachCheck == InitOutreachCheck /\ [][NextOutreachCheck]_vars

SomeNonOperational(components) ==
    \E i \in DOMAIN components : components[i].status # "operational"

\* C37: a successful check of the Outreach page has status -1 if the page has
\* an active incident or a component that is not operational, otherwise 0 if
\* it has a maintenance event, otherwise 1; the maintenance list of the
\* result is non-empty only with status 0 and its incident list only with
\* status -1.
C37_OutreachStatusDerivation ==
    pc = "outreach_checked" =>
        LET page == results[1].page
            result == results[1].result
        IN  /\ result.success
            /\ result.status =
                   IF page.incidents # <<>> \/ SomeNonOperational(page.components) THEN -1
                   ELSE IF page.maintenances # <<>> THEN 0
                   ELSE 1
            /\ result.maintenance_metadata # <<>> => result.status = 0
            /\ result.incident_metadata # <<>> => result.status = -1

\* a page without incident, with a component that is down and a maintenance
\* event, has been checked: status -1 and no list
C37_Witness ==
    /\ pc = "outreach_checked"
    /\ results[1].page.incidents = <<>>
    /\ results[1].page.maintenances # <<>>
    /\ \E i \in DOMAIN results[1].page.components :
          results[1].page.components[i].status = "down"
    /\ results[1].result.status = -1
    /\ results[1].result.maintenance_metadata = <<>>
    /\ results[1].result.incident_metadata = <<>>

\* a page with an incident and a maintenance event has been checked
C37_IncidentOverMaintenance ==
    /\ pc = "outreach_checked"
    /\ results[1].page.incidents # <<>>
    /\ results[1].page.maintenances # <<>>
    /\ results[1].result.status = -1
    /\ Len(results[1].result.incident_metadata) = Len(results[1].page.incidents)

\* ------------------------------------------------------------------------
\* C38  Round trip of the cache store (cache_manager, file by file)
\* ------------------------------------------------------------------------

\* the cache directory is a function from paths to the text of the file, or
\* NoFile; here the variable cache holds the directory, previous_caches the
\* response_data of the last successful save of each key since the last
\* clear_cache call that covered the key, and results the last call

NoFile == [no_file |-> TRUE]

\* a file that json.load rejects: cut short, or not JSON at all
CorruptText == [garbage |-> TRUE]

\* a variant of lines 62-74 that gives every service the same file
get_cache_path_OneFile(service_key) == [name |-> "cache", suffix |-> ".json"]

\* lines 62-74: cache_dir / f"{service_key}.json"
get_cache_path(service_key) == [name |-> service_key, suffix |-> ".json"]

\* line 97: cache_file.with_suffix('.json.tmp')
TempPath(cache_file) == [cache_file EXCEPT !.suffix = ".json.tmp"]

StorePaths ==
    {get_cache_path(k) : k \in Services} \cup {TempPath(get_cache_path(k)) : k \in Services}

\* JSON values
JsonString(s) == [str |-> s]
JsonNumber(n) == [num |-> n]
JsonBool(b) == [bool |-> b]
JsonArray(elements) == [array |-> elements]
JsonObject(members) == [object |-> members]

MetadataLists == {"incident_metadata", "maintenance_metadata", "component_metadata"}

\* json.dump of one incident, maintenance or component dict: status_value is
\* an int, affected_components a list of str, the other values are str
EncodeMetadata(record) ==
    JsonObject([key \in DOMAIN record |->
        CASE key = "status_value" -> JsonNumber(record[key])
          [] key = "affected_components" ->
                 JsonArray([i \in DOMAIN record[key] |-> JsonString(record[key][i])])
          [] OTHER -> JsonString(record[key])])

\* json.dump of a result dict of the checker
EncodeResult(result) ==
    JsonObject([key \in DOMAIN result |->
        CASE key \in {"status", "response_time"} -> JsonNumber(result[key])
          [] key = "success" -> JsonBool(result[key])
          [] key \in MetadataLists ->
                 JsonArray([i \in DOMAIN result[key] |-> EncodeMetadata(result[key][i])])
          [] OTHER -> JsonString(result[key])])

\* lines 98-99: json.dump(cache_entry, f, indent=2, ensure_ascii=False)
json_dump(cache_entry) ==
    [json |-> JsonObject([service_key |-> JsonString(cache_entry.service_key),
                          timestamp |-> JsonString(cache_entry.timestamp),
                          response_data |-> EncodeResult(cache_entry.response_data)])]

\* an entry an earlier version can have left: no response_data
EntryWithoutResponseData(service_key) ==
    [json |-> JsonObject([service_key |-> JsonString(service_key)])]

\* json.load raises JSONDecodeError on the text
JSONDecodeError(text) == "json" \notin DOMAIN text

RECURSIVE Decode(_)
Decode(j) ==
    IF "str" \in DOMAIN j THEN j.str
    ELSE IF "num" \in DOMAIN j THEN j.num
    ELSE IF "bool" \in DOMAIN j THEN j.bool
    ELSE IF "array" \in DOMAIN j THEN [i \in DOMAIN j.array |-> Decode(j.array[i])]
    ELSE [key \in DOMAIN j.object |-> Decode(j.object[key])]

\* lines 127-128: json.load(f)
json_load(text) == Decode(text.json)

\* lines 111-156: what load_service_response returns on a directory
LoadReturns(files, service_key) ==
    LET text == files[get_cache_path(service_key)]
    IN  IF text = NoFile THEN NoneValue
        ELSE IF JSONDecodeError(text) THEN NoneValue
        ELSE LET cache_entry == json_load(text)
             IN  IF "response_data" \notin DOMAIN cache_entry THEN NoneValue
                 ELSE cache_entry.response_data

\* what the load finds in the file of the key
FoundAt(files, service_key) ==
    LET text == files[get_cache_path(service_key)]
    IN  IF text = NoFile THEN "missing"
        ELSE IF JSONDecodeError(text) THEN "unparsable"
        ELSE IF "response_data" \notin DOMAIN json_load(text) THEN "no_response_data"
        ELSE "entry"

\* the results the checker hands to the store for a service
SavedResults(service_key) ==
    {CacheResult(SuccessResult(page, 1, SERVICES(service_key), NoneValue)) :
        page \in {PageOk, PageIncAB}}

\* datetime.now(timezone.utc).isoformat() of two saves
SaveTimes == {TsStart, TsPlan}

\* where a save can raise: nowhere, at the open of the temporary file, in
\* json.dump, or at the rename
SaveOutcomes == {"ok", "open_raises", "dump_raises", "replace_raises"}

\* the directory an earlier process left
InitStore ==
    /\ cache \in {files \in [StorePaths -> {NoFile, CorruptText}
                                             \cup {EntryWithoutResponseData(k) : k \in Services}] :
                     \A k \in Services :
                        /\ files[TempPath(get_cache_path(k))] = NoFile
                        /\ files[get_cache_path(k)]
                               \in {NoFile, CorruptText, EntryWithoutResponseData(k)}}
    /\ status_gauge = EmptyGauge
    /\ response_time_gauge = EmptyGauge
    /\ incident_info = EmptyGauge
    /\ maintenance_info = EmptyGauge
    /\ component_status = EmptyGauge
    /\ check_failures_counter = EmptyGauge
    /\ pc = "store"
    /\ idx = 0
    /\ previous_caches = [k \in Services |-> NoneValue]
    /\ results = <<>>
    /\ mutations = <<>>
    /\ cycles = 0

\* lines 76-109: save_service_response(service_key, response_data)
SaveServiceResponse ==
    /\ pc = "store"
    /\ \E service_key \in Services, timestamp \in SaveTimes, outcome \in SaveOutcomes :
         \E response_data \in SavedResults(service_key) :
            LET cache_file == get_cache_path(service_key)
                temp_file == TempPath(cache_file)
                cache_entry == [service_key |-> service_key, timestamp |-> timestamp,
                                response_data |-> response_data]
            IN  /\ cache' =
                       CASE outcome = "open_raises" -> cache
                         [] outcome = "dump_raises" ->
                                [cache EXCEPT ![temp_file] = CorruptText]
                         [] outcome = "replace_raises" ->
                                [cache EXCEPT ![temp_file] = json_dump(cache_entry)]
                         [] OTHER ->
                                [[cache EXCEPT ![temp_file] = NoFile]
                                    EXCEPT ![cache_file] = json_dump(cache_entry)]
                /\ results' = <<[op |-> "save", service_key |-> service_key,
                                 ok |-> outcome = "ok"]>>
                /\ previous_caches' =
                       IF outcome = "ok"
                       THEN [previous_caches EXCEPT ![service_key] = response_data]
                       ELSE previous_caches
    /\ UNCHANGED <<gauges, check_failures_counter, pc, idx, mutations, cycles>>

\* lines 111-156: load_service_response(service_key); a file that does not
\* parse is unlinked, and an unlink that raises is passed over
LoadServiceResponse ==
    /\ pc = "store"
    /\ \E service_key \in Services, unlink_ok \in BOOLEAN :
          /\ results' = <<[op |-> "load", service_key |-> service_key,
                           found |-> FoundAt(cache, service_key),
                           returned |-> LoadReturns(cache, service_key)]>>
          /\ cache' = IF FoundAt(cache, service_key) = "unparsable" /\ unlink_ok
                      THEN [cache EXCEPT ![get_cache_path(service_key)] = NoFile]
                      ELSE cache
    /\ UNCHANGED <<gauges, check_failures_counter, pc, idx, previous_caches, mutations,
                   cycles>>

\* the files cache_dir.glob('*.json') yields
JsonFiles(files) == {path \in DOMAIN files : path.suffix = ".json" /\ files[path] # NoFile}

\* lines 158-189: clear_cache(service_key); "" stands for the values line 172
\* takes as false (None, the default, and the empty string). The unlink of
\* one file can raise; the loop over every file can raise after any of them
ClearCache ==
    /\ pc = "store"
    /\ \E service_key \in Services \cup {""} :
          IF service_key # ""
          THEN \E unlink_ok \in BOOLEAN :
                  /\ cache' = IF unlink_ok
                              THEN [cache EXCEPT ![get_cache_path(service_key)] = NoFile]
                              ELSE cache
                  /\ results' = <<[op |-> "clear", service_key |-> service_key,
                                   ok |-> unlink_ok
                                          \/ cache[get_cache_path(service_key)] = NoFile]>>
                  /\ previous_caches' = [previous_caches EXCEPT ![service_key] = NoneValue]
          ELSE \E unlinked \in SUBSET JsonFiles(cache) :
                  /\ cache' = [path \in DOMAIN cache |->
                                  IF path \in unlinked THEN NoFile ELSE cache[path]]
                  /\ results' = <<[op |-> "clear", service_key |-> service_key,
                                   ok |-> unlinked = JsonFiles(cache)]>>
                  /\ previous_caches' = [k \in Services |-> NoneValue]
    /\ UNCHANGED <<gauges, check_failures_counter, pc, idx, mutations, cycles>>

NextStore ==
    \/ SaveServiceResponse
    \/ LoadServiceResponse
    \/ ClearCache

SpecStore == InitStore /\ [][NextStore]_vars

LastCallIs(op) == results # <<>> /\ results[1].op = op

\* a load after a successful save returns what was saved
LoadReturnsLastSave ==
    LastCallIs("load") /\ previous_caches[results[1].service_key] # NoneValue
        => results[1].returned = previous_caches[results[1].service_key]

\* a load of a missing or unparsable entry returns None
LoadOfNothingReturnsNone ==
    LastCallIs("load") /\ results[1].found \in {"missing", "unparsable"}
        => results[1].returned = NoneValue

\* a save or a clear of one key leaves the load of every other key
OtherKeysUntouched ==
    results' # <<>> /\ results'[1].op \in {"save", "clear"} /\ results'[1].service_key # ""
        => \A other \in Services \ {results'[1].service_key} :
               LoadReturns(cache', other) = LoadReturns(cache, other)

\* C38: after a successful save of a result for a key, every load of the key
\* returns that result until the next successful save or the next clear of
\* the key; a save or a clear of one key does not change what a load of
\* another key returns; a load of a missing or unparsable entry returns None.
C38_StoreRoundTrip ==
    /\ [](LoadReturnsLastSave /\ LoadOfNothingReturnsNone)
    /\ [][OtherKeysUntouched]_vars

\* a load has returned the saved result of e1 with its incidents, while the
\* file of e2 holds another saved result and a failed save of e1 has left
\* its temporary file
C38_Witness ==
    /\ LastCallIs("load")
    /\ results[1].service_key = "e1"
    /\ results[1].found = "entry"
    /\ previous_caches["e1"] # NoneValue
    /\ results[1].returned = previous_caches["e1"]
    /\ Len(results[1].returned.incident_metadata) = 2
    /\ previous_caches["e2"] # NoneValue
    /\ previous_caches["e2"].incident_metadata = <<>>
    /\ cache[TempPath(get_cache_path("e1"))] # NoFile

\* a load has found a file that does not parse and removed it
C38_UnparsableRemoved ==
    /\ LastCallIs("load")
    /\ results[1].found = "unparsable"
    /\ results[1].returned = NoneValue
    /\ cache[get_cache_path(results[1].service_key)] = NoFile

====
